---- MODULE Spec2Model ----
(***************************************************************************)
(* Model of the orchestration engine of the Enterprise Workflow            *)
(* Choreographer: the dynamic workflow dispatcher                          *)
(* (src/src/workflows/choreographer.py) together with the workflow builder *)
(* it relies on (src/src/agents/orchestrator.py) and the data model        *)
(* (src/src/models.py).                                                    *)
(*                                                                         *)
(* Python values are modelled as follows.  A dict is a TLA+ record whose   *)
(* domain is the set of keys present; dict.get is Get/GetOr.  None of an   *)
(* Optional[str] is the string None; None of an Optional[dict] is the      *)
(* record NoneData.  An exception is a record with field raised.  Times    *)
(* (started_at, completed_at, timestamp), identifiers made by uuid4 and    *)
(* the human readable message of an ActionResult are left out: no branch   *)
(* of the modelled code reads them.                                        *)
(***************************************************************************)
EXTENDS Integers, Sequences, FiniteSets, TLC

VARIABLES
    pc,               \* [Runs -> position of the run's coroutine]
    features,         \* config.features (FeatureFlags), fixed per process
    incident,         \* [Runs -> the Incident object handed to the run]
    team_members,     \* [Runs -> the roster handed to the run]
    active_workflows, \* WorkflowChoreographer.active_workflows, by run
    context,          \* [Runs -> context["results"] of _execute_workflow]
    done,             \* [Runs -> number of loop iterations finished]
    result,           \* [Runs -> ActionResult returned by _execute_step, in flight]
    awaiting,         \* [Runs -> collaborator call the run is suspended on]
    ai_outcome,       \* [Runs -> how the Decision Provider answered] (history)
    caller_error,     \* [Runs -> fault raised to the caller of the run] (history)
    log,              \* [Runs -> sequence of dispatch/handler/call events] (history)
    before,           \* [Runs -> the incident when the current step was dispatched] (history)
    selection,        \* [Runs -> the list _select_relevant_team_members returned]
    workflow_result,  \* [Runs -> the workflow_result dict of a playbook run]
    active_incidents, \* IncidentResponseWorkflow.active_incidents, by incident id
    answers,          \* [Runs -> what the calls of the current stage returned]
    budget,           \* collaborator calls the environment may still make fail
    report,           \* the title and the description quick_classify is called with
    classification    \* the (severity, category) quick_classify returned

vars == <<pc, features, incident, team_members, active_workflows, context,
          done, result, awaiting, ai_outcome, caller_error, log, before, selection,
          workflow_result, active_incidents, answers, budget, report,
          classification>>

\* What belongs to the incident agent alone.
agent_vars == <<report, classification>>

\* What belongs to the fixed playbook alone.
playbook_vars == <<workflow_result, active_incidents, answers, budget>>

-----------------------------------------------------------------------------
(* Bounds of the model *)

\* Longest plan the Decision Provider returns.
MaxPlanLen == 2

\* Collaborator calls that fail or fault while two playbook runs are
\* interleaved.
MaxFaults == 0

\* Most words in a title.
MaxWords == 3

\* Longest roster handed to the responder selector.
MaxRoster == 6

\* The runs (coroutines of orchestrate_incident_response) of one process.
Runs == {"run1", "run2"}

\* The runs that are started under Spec: one run at a time.
SoloRuns == {"run1"}

-----------------------------------------------------------------------------
(* Python values *)

None == "None"

NoneData == [none |-> TRUE]

EmptyDict == [k \in {} |-> None]

Get(d, k) == IF k \in DOMAIN d THEN d[k] ELSE None

GetOr(d, k, default) == IF k \in DOMAIN d THEN d[k] ELSE default

\* Truth value of an Optional[str]: None and "" are falsy.
Truthy(s) == s # None /\ s # ""

Range(s) == {s[k] : k \in 1..Len(s)}

Min(a, b) == IF a <= b THEN a ELSE b

-----------------------------------------------------------------------------
(* models.py *)

IncidentSeverity == {"critical", "high", "medium", "low"}

IncidentStatus ==
    <<"detected", "triaging", "in_progress", "mitigated", "resolved", "closed">>

IncidentCategory ==
    {"infrastructure", "application", "database", "network", "security",
     "performance", "integration", "unknown"}

\* Incident(...) as built by the callers: the optional fields at their defaults.
Incident(id, severity, category) ==
    [ id                    |-> id,
      severity              |-> severity,
      status                |-> "detected",
      category              |-> category,
      servicenow_ticket_id  |-> None,
      slack_channel_id      |-> None,
      confluence_page_id    |-> None,
      assigned_responders   |-> <<>>,
      root_cause_hypothesis |-> None ]

WorkflowStep(name, action, target_tool, parameters) ==
    [ name        |-> name,
      action      |-> action,
      target_tool |-> target_tool,
      parameters  |-> parameters,
      status      |-> "pending",
      result      |-> NoneData,
      error       |-> None ]

Workflow(steps) ==
    [ steps              |-> steps,
      current_step_index |-> 0,
      status             |-> "pending" ]

\* The registry slot of a run that has not stored a workflow yet.
NoWorkflow == [ steps |-> <<>>, current_step_index |-> 0, status |-> "absent" ]

ActionResult(success, action, tool, data, error) ==
    [ success |-> success,
      action  |-> action,
      tool    |-> tool,
      data    |-> data,
      error   |-> error ]

NoResult == ActionResult(FALSE, None, None, NoneData, None)

\* d[k] = v on a dict.
With(d, k, v) == (k :> v) @@ d

\* The incidents the playbook is started for.  Incident ids are uuids; a
\* caller may hand the same incident to execute_workflow more than once.
IncidentIds == {"incident1", "incident2"}

\* workflow_result as execute_workflow builds it (incident_workflow.py lines
\* 98-105).  steps is the dict of stage records, kept as the sequence of its
\* items in insertion order; completed_at is None while the key is absent.
WorkflowResult(incident_id) ==
    [ incident_id  |-> incident_id,
      steps        |-> << >>,
      success      |-> TRUE,
      errors       |-> << >>,
      completed_at |-> None ]

\* The result slot of a run that has not built a workflow_result yet.
NoWorkflowResult == WorkflowResult(None)

\* An entry of active_incidents (lines 108-111): references to the incident
\* and to the workflow_result of the run that stored the entry.
Entry(r) == [incident |-> r, workflow |-> r]

NoEntry == [incident |-> None, workflow |-> None]

\* How many collaborator calls the environment may still make fail or fault.
Budget(left) == [limited |-> TRUE, left |-> left]

Unlimited == [limited |-> FALSE, left |-> 0]

\* A text is the sequence of its characters.
NoReport == [title |-> << >>, description |-> << >>]

NoClassification == [severity |-> None, category |-> None]

\* str.lower() on one character.
LowerChar(c) ==
    LET upper == << "A", "B", "C", "D", "E", "F", "G", "H", "I", "J", "K", "L", "M",
                    "N", "O", "P", "Q", "R", "S", "T", "U", "V", "W", "X", "Y", "Z" >>
        lower == << "a", "b", "c", "d", "e", "f", "g", "h", "i", "j", "k", "l", "m",
                    "n", "o", "p", "q", "r", "s", "t", "u", "v", "w", "x", "y", "z" >>
    IN  IF \E n \in 1..Len(upper) : upper[n] = c
        THEN lower[CHOOSE n \in 1..Len(upper) : upper[n] = c]
        ELSE c

\* kw in text, on strings: kw is a run of consecutive characters of text.
In(kw, text) ==
    \E n \in 1..(Len(text) - Len(kw) + 1) : SubSeq(text, n, n + Len(kw) - 1) = kw

\* IncidentAgent.SEVERITY_KEYWORDS, in the order of the dict.
SEVERITY_KEYWORDS ==
    << [ severity |-> "critical", keywords |-> <<
            <<"c", "r", "i", "t", "i", "c", "a", "l">>,  \* critical
            <<"f", "a", "t", "a", "l">>,  \* fatal
            <<"e", "m", "e", "r", "g", "e", "n", "c", "y">>,  \* emergency
            <<"o", "u", "t", "a", "g", "e">>,  \* outage
            <<"d", "o", "w", "n">>,  \* down
            <<"p", "r", "o", "d", "u", "c", "t", "i", "o", "n", " ", "d", "o", "w", "n">>,  \* production down
            <<"d", "a", "t", "a", " ", "l", "o", "s", "s">>,  \* data loss
            <<"s", "e", "c", "u", "r", "i", "t", "y", " ", "b", "r", "e", "a", "c", "h">> >> ],  \* security breach
       [ severity |-> "high", keywords |-> <<
            <<"h", "i", "g", "h">>,  \* high
            <<"s", "e", "v", "e", "r", "e">>,  \* severe
            <<"m", "a", "j", "o", "r">>,  \* major
            <<"d", "e", "g", "r", "a", "d", "e", "d">>,  \* degraded
            <<"f", "a", "i", "l", "i", "n", "g">>,  \* failing
            <<"e", "r", "r", "o", "r", " ", "r", "a", "t", "e", " ", "s", "p", "i", "k", "e">>,  \* error rate spike
            <<"l", "a", "t", "e", "n", "c", "y">>,  \* latency
            <<"t", "i", "m", "e", "o", "u", "t">> >> ],  \* timeout
       [ severity |-> "medium", keywords |-> <<
            <<"m", "e", "d", "i", "u", "m">>,  \* medium
            <<"w", "a", "r", "n", "i", "n", "g">>,  \* warning
            <<"e", "l", "e", "v", "a", "t", "e", "d">>,  \* elevated
            <<"i", "n", "c", "r", "e", "a", "s", "e", "d">>,  \* increased
            <<"p", "e", "r", "f", "o", "r", "m", "a", "n", "c", "e">>,  \* performance
            <<"s", "l", "o", "w">> >> ],  \* slow
       [ severity |-> "low", keywords |-> <<
            <<"l", "o", "w">>,  \* low
            <<"m", "i", "n", "o", "r">>,  \* minor
            <<"i", "n", "f", "o">>,  \* info
            <<"i", "n", "f", "o", "r", "m", "a", "t", "i", "o", "n", "a", "l">>,  \* informational
            <<"n", "o", "t", "i", "c", "e">> >> ] >>  \* notice

\* IncidentAgent.CATEGORY_KEYWORDS, in the order of the dict.
CATEGORY_KEYWORDS ==
    << [ category |-> "database", keywords |-> <<
            <<"d", "a", "t", "a", "b", "a", "s", "e">>,  \* database
            <<"d", "b">>,  \* db
            <<"s", "q", "l">>,  \* sql
            <<"p", "o", "s", "t", "g", "r", "e", "s">>,  \* postgres
            <<"m", "y", "s", "q", "l">>,  \* mysql
            <<"m", "o", "n", "g", "o", "d", "b">>,  \* mongodb
            <<"c", "o", "n", "n", "e", "c", "t", "i", "o", "n", " ", "p", "o", "o", "l">>,  \* connection pool
            <<"q", "u", "e", "r", "y">>,  \* query
            <<"d", "e", "a", "d", "l", "o", "c", "k">>,  \* deadlock
            <<"r", "e", "p", "l", "i", "c", "a", "t", "i", "o", "n">> >> ],  \* replication
       [ category |-> "infrastructure", keywords |-> <<
            <<"s", "e", "r", "v", "e", "r">>,  \* server
            <<"v", "m">>,  \* vm
            <<"c", "o", "n", "t", "a", "i", "n", "e", "r">>,  \* container
            <<"k", "u", "b", "e", "r", "n", "e", "t", "e", "s">>,  \* kubernetes
            <<"k", "8", "s">>,  \* k8s
            <<"p", "o", "d">>,  \* pod
            <<"n", "o", "d", "e">>,  \* node
            <<"c", "l", "u", "s", "t", "e", "r">>,  \* cluster
            <<"d", "i", "s", "k">>,  \* disk
            <<"m", "e", "m", "o", "r", "y">>,  \* memory
            <<"c", "p", "u">> >> ],  \* cpu
       [ category |-> "network", keywords |-> <<
            <<"n", "e", "t", "w", "o", "r", "k">>,  \* network
            <<"d", "n", "s">>,  \* dns
            <<"l", "o", "a", "d", " ", "b", "a", "l", "a", "n", "c", "e", "r">>,  \* load balancer
            <<"f", "i", "r", "e", "w", "a", "l", "l">>,  \* firewall
            <<"t", "i", "m", "e", "o", "u", "t">>,  \* timeout
            <<"c", "o", "n", "n", "e", "c", "t", "i", "o", "n", " ", "r", "e", "f", "u", "s", "e", "d">>,  \* connection refused
            <<"u", "n", "r", "e", "a", "c", "h", "a", "b", "l", "e">>,  \* unreachable
            <<"l", "a", "t", "e", "n", "c", "y">> >> ],  \* latency
       [ category |-> "security", keywords |-> <<
            <<"s", "e", "c", "u", "r", "i", "t", "y">>,  \* security
            <<"u", "n", "a", "u", "t", "h", "o", "r", "i", "z", "e", "d">>,  \* unauthorized
            <<"b", "r", "e", "a", "c", "h">>,  \* breach
            <<"a", "t", "t", "a", "c", "k">>,  \* attack
            <<"v", "u", "l", "n", "e", "r", "a", "b", "i", "l", "i", "t", "y">>,  \* vulnerability
            <<"a", "u", "t", "h", "e", "n", "t", "i", "c", "a", "t", "i", "o", "n">>,  \* authentication
            <<"p", "e", "r", "m", "i", "s", "s", "i", "o", "n">>,  \* permission
            <<"a", "c", "c", "e", "s", "s", " ", "d", "e", "n", "i", "e", "d">> >> ],  \* access denied
       [ category |-> "application", keywords |-> <<
            <<"a", "p", "p", "l", "i", "c", "a", "t", "i", "o", "n">>,  \* application
            <<"a", "p", "i">>,  \* api
            <<"s", "e", "r", "v", "i", "c", "e">>,  \* service
            <<"e", "n", "d", "p", "o", "i", "n", "t">>,  \* endpoint
            <<"e", "r", "r", "o", "r">>,  \* error
            <<"e", "x", "c", "e", "p", "t", "i", "o", "n">>,  \* exception
            <<"c", "r", "a", "s", "h">>,  \* crash
            <<"n", "u", "l", "l", " ", "p", "o", "i", "n", "t", "e", "r">> >> ],  \* null pointer
       [ category |-> "performance", keywords |-> <<
            <<"p", "e", "r", "f", "o", "r", "m", "a", "n", "c", "e">>,  \* performance
            <<"s", "l", "o", "w">>,  \* slow
            <<"l", "a", "t", "e", "n", "c", "y">>,  \* latency
            <<"r", "e", "s", "p", "o", "n", "s", "e", " ", "t", "i", "m", "e">>,  \* response time
            <<"t", "h", "r", "o", "u", "g", "h", "p", "u", "t">>,  \* throughput
            <<"b", "o", "t", "t", "l", "e", "n", "e", "c", "k">>,  \* bottleneck
            <<"q", "u", "e", "u", "e">> >> ] >>  \* queue

\* Variant of FirstSeverity without the break: the last severity that has a
\* keyword in the text wins.
RECURSIVE LastSeverity(_, _, _)
LastSeverity(items, text, severity) ==
    IF items = << >> THEN severity
    ELSE LastSeverity(Tail(items), text,
             IF \E n \in 1..Len(Head(items).keywords) :
                    In(Head(items).keywords[n], text)
             THEN Head(items).severity ELSE severity)

\* The loop of lines 202-205 over the rest of the dict.
RECURSIVE FirstSeverity(_, _, _)
FirstSeverity(items, text, severity) ==
    IF items = << >> THEN severity
    ELSE IF \E n \in 1..Len(Head(items).keywords) : In(Head(items).keywords[n], text)
    THEN Head(items).severity
    ELSE FirstSeverity(Tail(items), text, severity)

\* sum(1 for kw in keywords if kw in text)
Matches(keywords, text) ==
    Cardinality({n \in 1..Len(keywords) : In(keywords[n], text)})

\* Variant of BestCategory that takes a category as soon as one keyword of it
\* is in the text.
RECURSIVE LastCategory(_, _, _, _)
LastCategory(items, text, category, max_matches) ==
    IF items = << >> THEN category
    ELSE LastCategory(Tail(items), text,
             IF Matches(Head(items).keywords, text) > 0
             THEN Head(items).category ELSE category,
             max_matches)

\* The loop of lines 210-214 over the rest of the dict.
RECURSIVE BestCategory(_, _, _, _)
BestCategory(items, text, category, max_matches) ==
    IF items = << >> THEN category
    ELSE LET matches == Matches(Head(items).keywords, text)
         IN  IF matches > max_matches
             THEN BestCategory(Tail(items), text, Head(items).category, matches)
             ELSE BestCategory(Tail(items), text, category, max_matches)

\* incident_agent.py lines 188-216.
quick_classify(title, description) ==
    LET joined == title \o << " " >> \o description
        text == [n \in 1..Len(joined) |-> LowerChar(joined[n])]
    IN  [ severity |-> FirstSeverity(SEVERITY_KEYWORDS, text, "medium"),
          category |-> BestCategory(CATEGORY_KEYWORDS, text, "unknown", 0) ]

TeamMember(id, skills, on_call) ==
    [ id |-> id, skills |-> skills, on_call |-> on_call ]

\* WorkflowStatus of choreographer.py.
WorkflowStatus ==
    {"pending", "running", "paused", "completed", "failed", "cancelled"}

-----------------------------------------------------------------------------
(* agents/orchestrator.py: the workflow builder *)

\* Variant of get_default_workflow_steps that adds the urgent steps for
\* critical incidents only.
default_steps_critical_only(inc) ==
    << WorkflowStep("Create ServiceNow Ticket", "create_ticket",
                    "servicenow", [incident_id |-> inc.id]),
       WorkflowStep("Create Incident Channel", "create_channel",
                    "slack", [incident_id |-> inc.id]) >>
    \o (IF inc.severity = "critical"
        THEN << WorkflowStep("Notify Response Team", "notify_team",
                             "slack", [urgency |-> "high"]),
                WorkflowStep("Analyze Recent Changes", "analyze_commits",
                             "github", [hours_back |-> 24]) >>
        ELSE << >>)
    \o << WorkflowStep("Create Post-Mortem Template", "create_postmortem",
                       "confluence", [incident_id |-> inc.id]) >>

\* Variant of get_default_workflow_steps that names the first two steps after
\* the incident they are made for.
default_steps_named_by_incident(inc) ==
    << WorkflowStep(inc.id, "create_ticket",
                    "servicenow", [incident_id |-> inc.id]),
       WorkflowStep(inc.id, "create_channel",
                    "slack", [incident_id |-> inc.id]) >>
    \o (IF inc.severity \in {"critical", "high"}
        THEN << WorkflowStep("Notify Response Team", "notify_team",
                             "slack", [urgency |-> "high"]),
                WorkflowStep("Analyze Recent Changes", "analyze_commits",
                             "github", [hours_back |-> 24]) >>
        ELSE << >>)
    \o << WorkflowStep("Create Post-Mortem Template", "create_postmortem",
                       "confluence", [incident_id |-> inc.id]) >>

\* Fallback plan of AIOrchestrator._get_default_workflow_steps.
\* Variant of get_default_workflow_steps that notifies the team before the
\* channel is created.
default_steps_notify_first(inc) ==
    << WorkflowStep("Create ServiceNow Ticket", "create_ticket",
                    "servicenow", [incident_id |-> inc.id]) >>
    \o (IF inc.severity \in {"critical", "high"}
        THEN << WorkflowStep("Notify Response Team", "notify_team",
                             "slack", [urgency |-> "high"]) >>
        ELSE << >>)
    \o << WorkflowStep("Create Incident Channel", "create_channel",
                       "slack", [incident_id |-> inc.id]) >>
    \o (IF inc.severity \in {"critical", "high"}
        THEN << WorkflowStep("Analyze Recent Changes", "analyze_commits",
                             "github", [hours_back |-> 24]) >>
        ELSE << >>)
    \o << WorkflowStep("Create Post-Mortem Template", "create_postmortem",
                       "confluence", [incident_id |-> inc.id]) >>

get_default_workflow_steps(inc) ==
    LET head == << WorkflowStep("Create ServiceNow Ticket", "create_ticket",
                                "servicenow", [incident_id |-> inc.id]),
                   WorkflowStep("Create Incident Channel", "create_channel",
                                "slack", [incident_id |-> inc.id]) >>
        urgent == IF inc.severity \in {"critical", "high"}
                  THEN << WorkflowStep("Notify Response Team", "notify_team",
                                       "slack", [urgency |-> "high"]),
                          WorkflowStep("Analyze Recent Changes", "analyze_commits",
                                       "github", [hours_back |-> 24]) >>
                  ELSE << >>
        tail == << WorkflowStep("Create Post-Mortem Template", "create_postmortem",
                                "confluence", [incident_id |-> inc.id]) >>
    IN  head \o urgent \o tail

\* One WorkflowStep per step descriptor of the parsed response (lines 271-278).
parse_steps(steps_data) ==
    [ k \in 1..Len(steps_data) |->
        WorkflowStep(GetOr(steps_data[k], "name", "Unknown Step"),
                     GetOr(steps_data[k], "action", "unknown"),
                     GetOr(steps_data[k], "target_tool", "unknown"),
                     GetOr(steps_data[k], "parameters", EmptyDict)) ]

\* Variant of recommend_workflow_steps without the except clause: a failure
\* of the Decision Provider leaves the method.
recommend_workflow_steps_propagating(inc, reply) ==
    IF reply.kind = "steps"
    THEN [raised |-> FALSE, exc |-> None, steps |-> parse_steps(reply.steps)]
    ELSE [raised |-> TRUE, exc |-> "Decision Provider failed", steps |-> << >>]

\* AIOrchestrator.recommend_workflow_steps.  reply is what the model call and
\* json.loads produce: kind "raise" (generate_text raises), "garbage" (the
\* text is no JSON, or no list of well-formed descriptors, so that json.loads,
\* step_data.get or WorkflowStep(...) raises inside the try) or "steps".
\* The value is what the caller gets: raised tells a fault that left the method.
recommend_workflow_steps(inc, reply) ==
    IF reply.kind = "steps"
    THEN [raised |-> FALSE, exc |-> None, steps |-> parse_steps(reply.steps)]
    ELSE [raised |-> FALSE, exc |-> None, steps |-> get_default_workflow_steps(inc)]

-----------------------------------------------------------------------------
(* workflows/choreographer.py: helpers *)

\* Keys of WorkflowChoreographer._action_handlers.
ActionHandlers ==
    {"create_ticket", "update_ticket", "create_channel", "notify_team",
     "assemble_team", "analyze_commits", "gather_logs", "create_postmortem",
     "generate_hypothesis", "search_knowledge", "post_update"}

is_critical_step(step) == step.action \in {"create_ticket"}

category_skills ==
    [ database       |-> {"postgresql", "mysql", "mongodb", "dba", "sql"},
      infrastructure |-> {"kubernetes", "aws", "docker", "sre", "devops"},
      network        |-> {"networking", "dns", "load-balancer", "firewall"},
      security       |-> {"security", "soc", "incident-response"},
      application    |-> {"backend", "frontend", "java", "python", "nodejs"},
      performance    |-> {"performance", "optimization", "profiling"} ]

\* The two loops of lines 657-664: append the members not yet selected while
\* fewer than five are selected.
RECURSIVE AppendUnselected(_, _)
AppendUnselected(selected, members) ==
    IF members = << >> THEN selected
    ELSE LET member == Head(members)
         IN  AppendUnselected(
                 IF member \notin Range(selected) /\ Len(selected) < 5
                 THEN Append(selected, member) ELSE selected,
                 Tail(members))

\* Variant of select_relevant_team_members that starts with the skilled
\* members and adds the on-call members after them.
select_skilled_first(inc, all_members) ==
    LET IsOnCall(m) == m.on_call
        on_call == SelectSeq(all_members, IsOnCall)
        relevant_skills == GetOr(category_skills, inc.category, {})
        IsSkilled(m) == m.skills \cap relevant_skills # {}
        skilled_members == SelectSeq(all_members, IsSkilled)
    IN  AppendUnselected(
            AppendUnselected(AppendUnselected(<< >>, skilled_members),
                             SubSeq(on_call, 1, Min(2, Len(on_call)))),
            all_members)

\* Variant of select_relevant_team_members without the loop over the skilled
\* members.
select_without_skills(inc, all_members) ==
    LET IsOnCall(m) == m.on_call
        on_call == SelectSeq(all_members, IsOnCall)
    IN  AppendUnselected(SubSeq(on_call, 1, Min(2, Len(on_call))), all_members)

\* Variant of select_relevant_team_members without the loop over all the
\* members.
select_without_the_rest(inc, all_members) ==
    LET IsOnCall(m) == m.on_call
        on_call == SelectSeq(all_members, IsOnCall)
        relevant_skills == GetOr(category_skills, inc.category, {})
        IsSkilled(m) == m.skills \cap relevant_skills # {}
        skilled_members == SelectSeq(all_members, IsSkilled)
        selected == SubSeq(on_call, 1, Min(2, Len(on_call)))
    IN  AppendUnselected(selected, skilled_members)

select_relevant_team_members(inc, all_members) ==
    LET IsOnCall(m) == m.on_call
        on_call == SelectSeq(all_members, IsOnCall)
        relevant_skills == GetOr(category_skills, inc.category, {})
        IsSkilled(m) == m.skills \cap relevant_skills # {}
        skilled_members == SelectSeq(all_members, IsSkilled)
        selected == SubSeq(on_call, 1, Min(2, Len(on_call)))
    IN  AppendUnselected(AppendUnselected(selected, skilled_members), all_members)

\* Variant of update_incident_from_result without the check of result.success.
update_incident_ignoring_success(inc, step, res) ==
    LET data == IF res.data = NoneData THEN EmptyDict ELSE res.data
    IN  CASE step.action = "create_ticket" ->
               [inc EXCEPT !.servicenow_ticket_id = Get(data, "number")]
          [] step.action = "create_channel" ->
               [inc EXCEPT !.slack_channel_id = Get(data, "channel_id")]
          [] step.action = "create_postmortem" ->
               [inc EXCEPT !.confluence_page_id = Get(data, "page_id")]
          [] step.action = "generate_hypothesis" ->
               [inc EXCEPT !.root_cause_hypothesis = Get(data, "hypothesis")]
          [] OTHER -> inc

update_incident_from_result(inc, step, res) ==
    IF ~res.success THEN inc
    ELSE LET data == IF res.data = NoneData THEN EmptyDict ELSE res.data
         IN  CASE step.action = "create_ticket" ->
                    [inc EXCEPT !.servicenow_ticket_id = Get(data, "number")]
               [] step.action = "create_channel" ->
                    [inc EXCEPT !.slack_channel_id = Get(data, "channel_id")]
               [] step.action = "create_postmortem" ->
                    [inc EXCEPT !.confluence_page_id = Get(data, "page_id")]
               [] step.action = "generate_hypothesis" ->
                    [inc EXCEPT !.root_cause_hypothesis = Get(data, "hypothesis")]
               [] OTHER -> inc

-----------------------------------------------------------------------------
(* The collaborators, as the handlers see them *)

\* How a collaborator call can end: it returns its success shape, it returns
\* {"success": False, "error": ...}, or a fault other than the one its own
\* try/except names leaves it.  ConfluenceConnector, JiraConnector and
\* AIOrchestrator catch Exception around the whole remote call, so they do
\* not raise.
Outcomes(op) ==
    IF op \in {"confluence.create_postmortem", "confluence.search_knowledge_base",
               "ai.generate_root_cause_hypothesis", "jira.create_incident_issue",
               "jira.assign_issue"}
    THEN {"ok", "fail"}
    ELSE {"ok", "fail", "raise"}

FaultText == "ConnectionError"

ErrorText == "503 Service Unavailable"

Failure == [success |-> FALSE, error |-> ErrorText]

Returns(value) == [raised |-> FALSE, exc |-> None, value |-> value]

Raises(exc) == [raised |-> TRUE, exc |-> exc, value |-> EmptyDict]

\* The answer of collaborator operation op, called with arg, ending as outcome.
Reply(op, arg, outcome) ==
    IF outcome = "raise" THEN Raises(FaultText)
    ELSE IF op = "ai.generate_root_cause_hypothesis"
    THEN Returns(IF outcome = "ok" THEN "HYPOTHESIS: bad deploy"
                 ELSE "Unable to generate AI hypothesis. Error: timeout")
    ELSE IF outcome = "fail" THEN Returns(Failure)
    ELSE CASE op = "servicenow.create_incident" ->
                Returns([success |-> TRUE, number |-> "INC0012345"])
           [] op = "servicenow.add_work_note" ->
                Returns([success |-> TRUE])
           [] op = "slack.create_incident_channel" ->
                Returns([success |-> TRUE, channel_id |-> "C024BE91L"])
           [] op = "slack.notify_team" ->
                Returns([success |-> TRUE, channel |-> arg.channel])
           [] op = "slack.assemble_response_team" ->
                Returns([success |-> TRUE, channel_id |-> arg.channel])
           [] op = "slack.post_incident_update" ->
                Returns([success |-> TRUE])
           [] op = "github.analyze_recent_commits" ->
                Returns([success |-> TRUE, total_commits |-> "1",
                         commits |-> "a1b2c3d4"])
           [] op = "confluence.create_postmortem" ->
                Returns([success |-> TRUE, page_id |-> "98765"])
           [] op = "confluence.search_knowledge_base" ->
                Returns([success |-> TRUE, total |-> "0"])
           [] op = "github.get_recent_deployments" ->
                Returns([success |-> TRUE, deployments |-> <<"deploy-41">>])
           [] op = "github.get_workflow_runs" ->
                Returns([success |-> TRUE, runs |-> <<"run-77">>])
           [] op = "jira.create_incident_issue" ->
                Returns([success |-> TRUE, issue_key |-> "INC-7",
                         issue_url |-> "/browse/INC-7"])
           [] op = "jira.assign_issue" ->
                Returns([success |-> TRUE])

\* A reply used only to find out which call a handler makes.
NoReply == Returns(EmptyDict)

Call(op, arg) == [op |-> op, arg |-> arg]

NoCall == Call(None, EmptyDict)

-----------------------------------------------------------------------------
(* workflows/choreographer.py: the action handlers *)

\* What running a handler gives: the collaborator calls it made, how it ended
\* (raised with exc, or returned value), and the incident as it left it.
Returned(calls, value, inc) ==
    [calls |-> calls, raised |-> FALSE, exc |-> None, value |-> value, incident |-> inc]

Raised(calls, exc, inc) ==
    [calls |-> calls, raised |-> TRUE, exc |-> exc, value |-> NoResult, incident |-> inc]

\* A handler that returns ActionResult(success=result.get("success", False),
\* ..., data=result) after one call.
ForwardResult(step, tool, call, reply, inc) ==
    IF reply.raised THEN Raised(<<call>>, reply.exc, inc)
    ELSE Returned(<<call>>,
                  ActionResult(GetOr(reply.value, "success", FALSE), step.action,
                               tool, reply.value, None),
                  inc)

\* Variant of CreateAndStore that hands the collaborator's answer on as data
\* when the call failed, too.
CreateAndStoreKeepingData(step, tool, call, reply, inc, stored) ==
    IF reply.raised THEN Raised(<<call>>, reply.exc, inc)
    ELSE IF GetOr(reply.value, "success", FALSE)
    THEN Returned(<<call>>,
                  ActionResult(TRUE, step.action, tool, reply.value, None), stored)
    ELSE Returned(<<call>>,
                  ActionResult(FALSE, step.action, tool, reply.value,
                               Get(reply.value, "error")),
                  inc)

\* A handler that stores an identifier of the result on the incident when the
\* call succeeds and returns error=result.get("error") otherwise.
CreateAndStore(step, tool, call, reply, inc, stored) ==
    IF reply.raised THEN Raised(<<call>>, reply.exc, inc)
    ELSE IF GetOr(reply.value, "success", FALSE)
    THEN Returned(<<call>>,
                  ActionResult(TRUE, step.action, tool, reply.value, None), stored)
    ELSE Returned(<<call>>,
                  ActionResult(FALSE, step.action, tool, NoneData,
                               Get(reply.value, "error")),
                  inc)

Skipped(step, tool, inc) ==
    Returned(<< >>,
             ActionResult(TRUE, step.action, tool, [skipped |-> TRUE], None), inc)

\* Variant of Refused that asks the collaborator all the same before it
\* returns the failure.
RefusedAfterCall(step, tool, error, inc) ==
    Returned(<< Call("slack.notify_team", [channel |-> None]) >>,
             ActionResult(FALSE, step.action, tool, NoneData, error), inc)

Refused(step, tool, error, inc) ==
    Returned(<< >>, ActionResult(FALSE, step.action, tool, NoneData, error), inc)

handle_create_ticket(step, inc, members, feats, reply) ==
    IF ~feats.auto_ticketing THEN Skipped(step, "servicenow", inc)
    ELSE CreateAndStore(step, "servicenow",
             Call("servicenow.create_incident", [incident |-> inc.id]), reply, inc,
             [inc EXCEPT !.servicenow_ticket_id = Get(reply.value, "number")])

handle_update_ticket(step, inc, members, feats, reply) ==
    IF ~Truthy(inc.servicenow_ticket_id)
    THEN Refused(step, "servicenow", "servicenow_ticket_id not set", inc)
    ELSE ForwardResult(step, "servicenow",
             Call("servicenow.add_work_note", [sys_id |-> inc.servicenow_ticket_id]),
             reply, inc)

handle_create_channel(step, inc, members, feats, reply) ==
    IF ~feats.slack_notifications THEN Skipped(step, "slack", inc)
    ELSE CreateAndStore(step, "slack",
             Call("slack.create_incident_channel", [incident |-> inc.id]), reply, inc,
             [inc EXCEPT !.slack_channel_id = Get(reply.value, "channel_id")])

\* Variant of handle_notify_team that takes the channel from the step's
\* parameters only.
notify_team_by_parameter_only(step, inc, members, feats, reply) ==
    LET channel == Get(step.parameters, "channel")
    IN  IF ~Truthy(channel) THEN Refused(step, "slack", "No channel_id", inc)
        ELSE ForwardResult(step, "slack",
                 Call("slack.notify_team", [channel |-> channel]), reply, inc)

handle_notify_team(step, inc, members, feats, reply) ==
    LET channel == IF Truthy(inc.slack_channel_id) THEN inc.slack_channel_id
                   ELSE Get(step.parameters, "channel")
    IN  IF ~Truthy(channel) THEN Refused(step, "slack", "No channel_id", inc)
        ELSE ForwardResult(step, "slack",
                 Call("slack.notify_team", [channel |-> channel]), reply, inc)

\* Variant of handle_assemble_team that puts the selected members on the
\* incident whether the collaborator assembled them or not.
assemble_team_assigning_always(step, inc, members, feats, reply) ==
    IF members = << >>
    THEN Refused(step, "slack", "Empty team_members list", inc)
    ELSE IF ~Truthy(inc.slack_channel_id)
    THEN Refused(step, "slack", "Create channel first", inc)
    ELSE LET relevant_members == select_relevant_team_members(inc, members)
             call == Call("slack.assemble_response_team",
                          [channel |-> inc.slack_channel_id,
                           team_members |-> relevant_members])
         IN  ForwardResult(step, "slack", call, reply,
                 [inc EXCEPT !.assigned_responders =
                     [k \in 1..Len(relevant_members) |-> relevant_members[k].id]])

handle_assemble_team(step, inc, members, feats, reply) ==
    IF members = << >>
    THEN Refused(step, "slack", "Empty team_members list", inc)
    ELSE IF ~Truthy(inc.slack_channel_id)
    THEN Refused(step, "slack", "Create channel first", inc)
    ELSE LET relevant_members == select_relevant_team_members(inc, members)
             call == Call("slack.assemble_response_team",
                          [channel |-> inc.slack_channel_id,
                           team_members |-> relevant_members])
         IN  ForwardResult(step, "slack", call, reply,
                 IF ~reply.raised /\ GetOr(reply.value, "success", FALSE)
                 THEN [inc EXCEPT !.assigned_responders =
                          [k \in 1..Len(relevant_members) |-> relevant_members[k].id]]
                 ELSE inc)

handle_analyze_commits(step, inc, members, feats, reply) ==
    IF ~feats.github_analysis THEN Skipped(step, "github", inc)
    ELSE ForwardResult(step, "github",
             Call("github.analyze_recent_commits", [incident |-> inc.id]), reply, inc)

handle_gather_logs(step, inc, members, feats, reply) ==
    Returned(<< >>,
             ActionResult(TRUE, step.action, "logging",
                          [sources |-> "application,infrastructure",
                           status |-> "collecting"], None),
             inc)

handle_create_postmortem(step, inc, members, feats, reply) ==
    IF ~feats.confluence_docs THEN Skipped(step, "confluence", inc)
    ELSE CreateAndStore(step, "confluence",
             Call("confluence.create_postmortem", [incident |-> inc.id]), reply, inc,
             [inc EXCEPT !.confluence_page_id = Get(reply.value, "page_id")])

\* Variant of UpstreamData that hands on a placeholder for data that is not
\* there.
UpstreamDataOrPlaceholder(results, action, key) ==
    IF action \in DOMAIN results /\ results[action].data # NoneData
       /\ key \in DOMAIN results[action].data
    THEN results[action].data[key] ELSE "unavailable"

\* The data of an earlier result as lines 541-542 read it: the value under
\* key, or None when the action has no result, no data or no such key.
UpstreamData(results, action, key) ==
    IF action \in DOMAIN results /\ results[action].data # NoneData
    THEN Get(results[action].data, key) ELSE None

handle_generate_hypothesis(step, inc, results, reply) ==
    LET call == Call("ai.generate_root_cause_hypothesis",
                     [logs |-> UpstreamData(results, "gather_logs", "logs"),
                      recent_changes |->
                          UpstreamData(results, "analyze_commits", "commits")])
    IN  IF reply.raised THEN Raised(<<call>>, reply.exc, inc)
        ELSE Returned(<<call>>,
                      ActionResult(TRUE, step.action, "ai",
                                   [hypothesis |-> reply.value], None),
                      [inc EXCEPT !.root_cause_hypothesis = reply.value])

handle_search_knowledge(step, inc, members, feats, reply) ==
    ForwardResult(step, "confluence",
        Call("confluence.search_knowledge_base", [query |-> inc.category]), reply, inc)

handle_post_update(step, inc, members, feats, reply) ==
    IF ~Truthy(inc.slack_channel_id)
    THEN Refused(step, "slack", "No slack_channel_id", inc)
    ELSE ForwardResult(step, "slack",
             Call("slack.post_incident_update", [channel |-> inc.slack_channel_id]),
             reply, inc)

-----------------------------------------------------------------------------
(* workflows/choreographer.py: the step dispatcher *)

\* handler(step, context) of line 228, for an action of _action_handlers.
handler(step, inc, members, feats, results, reply) ==
    CASE step.action = "create_ticket" ->
            handle_create_ticket(step, inc, members, feats, reply)
      [] step.action = "update_ticket" ->
            handle_update_ticket(step, inc, members, feats, reply)
      [] step.action = "create_channel" ->
            handle_create_channel(step, inc, members, feats, reply)
      [] step.action = "notify_team" ->
            handle_notify_team(step, inc, members, feats, reply)
      [] step.action = "assemble_team" ->
            handle_assemble_team(step, inc, members, feats, reply)
      [] step.action = "analyze_commits" ->
            handle_analyze_commits(step, inc, members, feats, reply)
      [] step.action = "gather_logs" ->
            handle_gather_logs(step, inc, members, feats, reply)
      [] step.action = "create_postmortem" ->
            handle_create_postmortem(step, inc, members, feats, reply)
      [] step.action = "generate_hypothesis" ->
            handle_generate_hypothesis(step, inc, results, reply)
      [] step.action = "search_knowledge" ->
            handle_search_knowledge(step, inc, members, feats, reply)
      [] step.action = "post_update" ->
            handle_post_update(step, inc, members, feats, reply)

\* Variant of unknown_action that reports success for an unregistered action.
unknown_action_accepted(step, inc) ==
    Returned(<< >>,
             ActionResult(TRUE, step.action, step.target_tool, NoneData, None), inc)

\* Lines 218-225: no handler for the action.
unknown_action(step, inc) ==
    Returned(<< >>,
             ActionResult(FALSE, step.action, step.target_tool, NoneData,
                          "No handler registered for action"),
             inc)

\* Variant of handler_fault that lets the fault of the handler through.
handler_fault_reraised(step, h) == h

\* Lines 230-237: a fault of the handler becomes a failed ActionResult.
handler_fault(step, h) ==
    [h EXCEPT !.raised = FALSE, !.exc = None,
              !.value = ActionResult(FALSE, step.action, step.target_tool,
                                     NoneData, h.exc)]

\* WorkflowChoreographer._execute_step from line 216 on.
execute_step(step, inc, members, feats, results, reply) ==
    IF step.action \notin ActionHandlers THEN unknown_action(step, inc)
    ELSE LET h == handler(step, inc, members, feats, results, reply)
         IN  IF h.raised THEN handler_fault(step, h) ELSE h

\* Variant of workflow_id that names every workflow alike.
workflow_id_shared(r) == "run1"

\* models.py line 102: a workflow gets a fresh uuid as its id, so the
\* workflow of run r is stored under a key no other run uses (line 127).
workflow_id(r) == r

\* Variant of step_index that counts the steps from one.
step_index_from_one(i) == i

\* Line 156: enumerate(workflow.steps) numbers the steps from zero; i is the
\* place of the step in the sequence, counted from one.
step_index(i) == i - 1

\* Variant of start_step that does not mark the step.
start_step_unmarked(step) == step

\* Lines 213-214 of _execute_step.
start_step(step) == [step EXCEPT !.status = "running"]

\* Variant of finish_step that sets the status of a successful step only.
finish_step_success_only(step, res) ==
    IF res.raised
    THEN [step EXCEPT !.error = res.exc]
    ELSE [step EXCEPT !.status = IF res.value.success THEN "completed" ELSE @,
                      !.result = res.value.data]

\* Lines 169-171 and 193-195 of _execute_workflow: the step after its
\* _execute_step call ended as res.
finish_step(step, res) ==
    IF res.raised
    THEN [step EXCEPT !.status = "failed", !.error = res.exc]
    ELSE [step EXCEPT !.status = IF res.value.success THEN "completed" ELSE "failed",
                      !.result = res.value.data]

\* Variant of store_result that keeps the first result of an action.
store_result_keep_first(results, step, res) ==
    IF res.raised \/ step.action \in DOMAIN results
    THEN results ELSE (step.action :> res.value) @@ results

\* Line 174: context["results"][step.action] = result.
store_result(results, step, res) ==
    IF res.raised THEN results ELSE (step.action :> res.value) @@ results

\* Variant of continue_after that leaves the loop when a critical step failed.
halt_after_critical_failure(steps, i, res) ==
    IF ~res.raised /\ ~res.value.success /\ is_critical_step(steps[i])
    THEN Len(steps) ELSE i

\* Variant of continue_after that passes over the step after step i.
skip_next_step(steps, i, res) == Min(i + 1, Len(steps))

\* Variant of continue_after that goes back to a step that failed.
retry_after_failure(steps, i, res) ==
    IF res.raised \/ ~res.value.success THEN i - 1 ELSE i

\* Lines 156 and 179-185: the loop goes on to the next step whatever the
\* result of step i was, a failed critical step included; the value is the
\* number of steps the loop is through with.
continue_after(steps, i, res) == i

\* Variant of final_status that reports a workflow with a failed step as failed.
status_failed_on_any_failure(wf) ==
    IF \E i \in 1..Len(wf.steps) : wf.steps[i].status = "failed"
    THEN "failed" ELSE "completed"

\* Variant of final_status that reports a workflow whose critical step failed
\* as failed.
status_failed_on_critical_failure(wf) ==
    IF \E i \in 1..Len(wf.steps) :
          wf.steps[i].status = "failed" /\ is_critical_step(wf.steps[i])
    THEN "failed" ELSE "completed"

\* Line 197: the status a workflow gets when its loop is over.
final_status(wf) == "completed"

-----------------------------------------------------------------------------
(* Inputs *)

FeatureNames ==
    {"auto_ticketing", "slack_notifications", "confluence_docs", "github_analysis"}

\* The settings of config.features the process is started with: every
\* capability enabled (the defaults of FeatureFlags) or every one disabled.
FeatureConfigs == { [f \in FeatureNames |-> enabled] : enabled \in BOOLEAN }

\* Rosters and incident categories handed to a run.
TeamInputs ==
    { [category |-> "unknown", roster |-> << >>],
      [category |-> "database",
       roster |-> << TeamMember("1", {"python"}, TRUE),
                     TeamMember("2", {"postgresql", "dba"}, FALSE) >>] }

\* Step descriptors the Decision Provider may return: one for each registered
\* action, a notification that names its channel, an action no handler is
\* registered for, and a descriptor with every field missing.
AIDescriptors ==
    { [name |-> "Step", action |-> a, target_tool |-> "tool",
       parameters |-> EmptyDict] : a \in ActionHandlers \cup {"restart_service"} }
    \cup { [name |-> "Step", action |-> "notify_team", target_tool |-> "slack",
            parameters |-> [channel |-> "#incident-response"]],
           EmptyDict }

AIPlans == UNION { [1..n -> AIDescriptors] : n \in 0..MaxPlanLen }

AIReplies ==
    { [kind |-> "raise", steps |-> << >>], [kind |-> "garbage", steps |-> << >>] }
    \cup { [kind |-> "steps", steps |-> p] : p \in AIPlans }

-----------------------------------------------------------------------------
(* The runs *)

Event(ev, step, what, arg) == [ev |-> ev, step |-> step, what |-> what, arg |-> arg]

Init ==
    /\ pc = [r \in Runs |-> "idle"]
    /\ features \in FeatureConfigs
    /\ incident = [r \in Runs |-> Incident(r, "low", "unknown")]
    /\ team_members = [r \in Runs |-> << >>]
    /\ active_workflows = [r \in Runs |-> NoWorkflow]
    /\ context = [r \in Runs |-> EmptyDict]
    /\ done = [r \in Runs |-> 0]
    /\ result = [r \in Runs |-> Returns(NoResult)]
    /\ awaiting = [r \in Runs |-> NoCall]
    /\ ai_outcome = [r \in Runs |-> "none"]
    /\ caller_error = [r \in Runs |-> None]
    /\ log = [r \in Runs |-> << >>]
    /\ before = [r \in Runs |-> Incident(r, "low", "unknown")]
    /\ selection = [r \in Runs |-> << >>]
    /\ workflow_result = [r \in Runs |-> NoWorkflowResult]
    /\ active_incidents = [id \in IncidentIds |-> NoEntry]
    /\ answers = [r \in Runs |-> << >>]
    /\ budget = Unlimited
    /\ report = NoReport
    /\ classification = NoClassification

\* orchestrate_incident_response is called with a fresh incident and a roster
\* and suspends on ai.recommend_workflow_steps (lines 103-116).
Start(r) ==
    /\ pc[r] = "idle"
    /\ \E severity \in IncidentSeverity, team \in TeamInputs :
          /\ incident' = [incident EXCEPT ![r] = Incident(r, severity, team.category)]
          /\ team_members' = [team_members EXCEPT ![r] = team.roster]
    /\ pc' = [pc EXCEPT ![r] = "planning"]
    /\ before' = [before EXCEPT ![r] = incident'[r]]
    /\ UNCHANGED <<agent_vars, playbook_vars, features, selection, active_workflows, context, done, result, awaiting,
                   ai_outcome, caller_error, log>>

\* The Decision Provider answers; the workflow is created and stored
\* (lines 113-127).  A fault of recommend_workflow_steps is not caught here.
PlanReturned(r) ==
    /\ pc[r] = "planning"
    /\ \E reply \in AIReplies :
          LET rec == recommend_workflow_steps(incident[r], reply)
          IN  /\ ai_outcome' = [ai_outcome EXCEPT ![r] = reply.kind]
              /\ IF rec.raised
                 THEN /\ caller_error' = [caller_error EXCEPT ![r] = rec.exc]
                      /\ pc' = [pc EXCEPT ![r] = "raised"]
                      /\ UNCHANGED active_workflows
                 ELSE /\ active_workflows' =
                            [active_workflows EXCEPT ![workflow_id(r)] = Workflow(rec.steps)]
                      /\ pc' = [pc EXCEPT ![r] = "created"]
                      /\ UNCHANGED caller_error
    /\ UNCHANGED <<agent_vars, playbook_vars, features, selection, incident, team_members, context, done, result,
                   awaiting, log, before>>

\* _execute_workflow up to the loop (lines 141-154).
BeginWorkflow(r) ==
    /\ pc[r] = "created"
    /\ active_workflows' = [active_workflows EXCEPT ![r].status = "running"]
    /\ context' = [context EXCEPT ![r] = EmptyDict]
    /\ done' = [done EXCEPT ![r] = 0]
    /\ pc' = [pc EXCEPT ![r] = "loop"]
    /\ UNCHANGED <<agent_vars, playbook_vars, features, selection, incident, team_members, result, awaiting,
                   ai_outcome, caller_error, log, before>>

\* One loop iteration up to its first suspension: the index is stored, the
\* step is marked running and its handler runs until it calls a collaborator
\* or returns (lines 157, 167, 213-228).
Dispatch(r) ==
    /\ pc[r] = "loop"
    /\ done[r] < Len(active_workflows[r].steps)
    /\ LET i == done[r] + 1
           step == start_step(active_workflows[r].steps[i])
           h == execute_step(step, incident[r], team_members[r], features,
                             context[r], NoReply)
           seen == << Event("dispatch", i, step.action, EmptyDict) >>
                   \o (IF step.action \in ActionHandlers
                       THEN << Event("handler", i, step.action, EmptyDict) >>
                       ELSE << >>)
       IN  /\ active_workflows' =
                 [active_workflows EXCEPT ![r].current_step_index = step_index(i),
                                          ![r].steps[i] = step]
           /\ IF h.calls = << >>
              THEN /\ result' = [result EXCEPT
                          ![r] = [raised |-> h.raised, exc |-> h.exc, value |-> h.value]]
                   /\ incident' = [incident EXCEPT ![r] = h.incident]
                   /\ pc' = [pc EXCEPT ![r] = "returned"]
                   /\ log' = [log EXCEPT ![r] = @ \o seen]
                   /\ UNCHANGED awaiting
              ELSE /\ awaiting' = [awaiting EXCEPT ![r] = h.calls[1]]
                   /\ pc' = [pc EXCEPT ![r] = "awaiting"]
                   /\ log' = [log EXCEPT ![r] = @ \o seen \o
                          << Event("call", i, h.calls[1].op, h.calls[1].arg) >>]
                   /\ UNCHANGED <<result, incident>>
    /\ before' = [before EXCEPT ![r] = incident[r]]
    /\ UNCHANGED <<agent_vars, playbook_vars, features, selection, team_members, context, done, ai_outcome, caller_error>>

\* The collaborator call ends; the handler and _execute_step run to their
\* return (lines 228-237).
CollaboratorReturns(r) ==
    /\ pc[r] = "awaiting"
    /\ \E outcome \in Outcomes(awaiting[r].op) :
          LET i == done[r] + 1
              step == active_workflows[r].steps[i]
              reply == Reply(awaiting[r].op, awaiting[r].arg, outcome)
              h == execute_step(step, incident[r], team_members[r], features,
                                context[r], reply)
          IN  /\ result' = [result EXCEPT
                     ![r] = [raised |-> h.raised, exc |-> h.exc, value |-> h.value]]
              /\ incident' = [incident EXCEPT ![r] = h.incident]
              /\ log' = [log EXCEPT ![r] =
                     IF reply.raised
                     THEN Append(@, Event("fault", i, reply.exc, EmptyDict))
                     ELSE IF outcome = "fail"
                     THEN Append(@, Event("failure", i, awaiting[r].op, EmptyDict))
                     ELSE @]
    /\ awaiting' = [awaiting EXCEPT ![r] = NoCall]
    /\ pc' = [pc EXCEPT ![r] = "returned"]
    /\ UNCHANGED <<agent_vars, playbook_vars, features, selection, team_members, active_workflows, context, done,
                   ai_outcome, caller_error, before>>

\* The rest of the loop iteration (lines 169-195).
RecordResult(r) ==
    /\ pc[r] = "returned"
    /\ LET i == done[r] + 1
           step == active_workflows[r].steps[i]
       IN  /\ active_workflows' =
                 [active_workflows EXCEPT ![r].steps[i] = finish_step(step, result[r])]
           /\ context' = [context EXCEPT ![r] = store_result(@, step, result[r])]
           /\ incident' = [incident EXCEPT ![r] =
                 IF result[r].raised THEN @
                 ELSE update_incident_from_result(@, step, result[r].value)]
           /\ done' = [done EXCEPT ![r] =
                 continue_after(active_workflows[r].steps, i, result[r])]
    /\ result' = [result EXCEPT ![r] = Returns(NoResult)]
    /\ pc' = [pc EXCEPT ![r] = "loop"]
    /\ UNCHANGED <<agent_vars, playbook_vars, features, selection, team_members, awaiting, ai_outcome, caller_error, log,
                   before>>

\* The loop is over: the workflow is completed and returned (lines 197-198, 132).
CompleteWorkflow(r) ==
    /\ pc[r] = "loop"
    /\ done[r] = Len(active_workflows[r].steps)
    /\ active_workflows' =
          [active_workflows EXCEPT ![r].status = final_status(active_workflows[r])]
    /\ pc' = [pc EXCEPT ![r] = "done"]
    /\ UNCHANGED <<agent_vars, playbook_vars, features, selection, incident, team_members, context, done, result,
                   awaiting, ai_outcome, caller_error, log, before>>

Step(r) ==
    \/ Start(r)
    \/ PlanReturned(r)
    \/ BeginWorkflow(r)
    \/ Dispatch(r)
    \/ CollaboratorReturns(r)
    \/ RecordResult(r)
    \/ CompleteWorkflow(r)

Next == \E r \in SoloRuns : Step(r)

Spec == Init /\ [][Next]_vars

\* The steps of a started run are taken one after the other by the event
\* loop, and every collaborator call is assumed to return or raise.
Progress(r) ==
    \/ PlanReturned(r)
    \/ BeginWorkflow(r)
    \/ Dispatch(r)
    \/ CollaboratorReturns(r)
    \/ RecordResult(r)
    \/ CompleteWorkflow(r)

FairSpec == Spec /\ \A r \in SoloRuns : WF_vars(Progress(r))

-----------------------------------------------------------------------------
(* The workflow builder without a Decision Provider *)

\* recommend_workflow_steps when the Decision Provider is not available: the
\* model call raises or its text does not parse, and the workflow is created
\* from what the method returns (lines 113-127).
DecisionProviderFails(r) ==
    /\ pc[r] = "planning"
    /\ \E reply \in {a \in AIReplies : a.kind # "steps"} :
          LET rec == recommend_workflow_steps(incident[r], reply)
          IN  /\ ai_outcome' = [ai_outcome EXCEPT ![r] = reply.kind]
              /\ IF rec.raised
                 THEN /\ caller_error' = [caller_error EXCEPT ![r] = rec.exc]
                      /\ pc' = [pc EXCEPT ![r] = "raised"]
                      /\ UNCHANGED active_workflows
                 ELSE /\ active_workflows' =
                            [active_workflows EXCEPT ![workflow_id(r)] = Workflow(rec.steps)]
                      /\ pc' = [pc EXCEPT ![r] = "created"]
                      /\ UNCHANGED caller_error
    /\ UNCHANGED <<agent_vars, playbook_vars, features, selection, incident, team_members, context, done, result,
                   awaiting, log, before>>

BuilderNext == \E r \in Runs : Start(r) \/ DecisionProviderFails(r)

\* Every run asks for a plan of its own incident and gets the fallback plan.
BuilderSpec == Init /\ [][BuilderNext]_vars

-----------------------------------------------------------------------------
(* Dynamic-workflow runs started side by side *)

\* The severities of the alerts that arrive side by side: the ones that get
\* the three-step fallback plan.
AlertSeverities == {"low", "medium"}

\* The alert route creates an incident and schedules
\* orchestrate_incident_response for it as a background task, with no roster.
AlertReceived(r) ==
    /\ pc[r] = "idle"
    /\ \E severity \in AlertSeverities :
          incident' = [incident EXCEPT ![r] = Incident(r, severity, "unknown")]
    /\ pc' = [pc EXCEPT ![r] = "planning"]
    /\ before' = [before EXCEPT ![r] = incident'[r]]
    /\ UNCHANGED <<agent_vars, playbook_vars, features, selection, team_members, active_workflows, context, done,
                   result, awaiting, ai_outcome, caller_error, log>>

\* The background tasks share one event loop: a run gives way to the other
\* runs at each await, that is between any two of its actions.
ConcurrentNext ==
    \E r \in Runs :
        \/ AlertReceived(r)
        \/ DecisionProviderFails(r)
        \/ BeginWorkflow(r)
        \/ Dispatch(r)
        \/ CollaboratorReturns(r)
        \/ RecordResult(r)
        \/ CompleteWorkflow(r)

ConcurrentSpec == Init /\ [][ConcurrentNext]_vars

-----------------------------------------------------------------------------
(* Dynamic-workflow runs on an incident that is under way already *)

\* Identifiers an incident may carry when it is handed over.
KnownIds ==
    [ servicenow_ticket_id |-> {None, "INC0010001"},
      slack_channel_id     |-> {None, "C024BE91L"},
      confluence_page_id   |-> {None, "123456"} ]

\* orchestrate_incident_response is called with an incident whose ticket,
\* channel and document may exist already (the fields are Optional[str] of
\* Incident and the entry point takes any Incident), and suspends on
\* ai.recommend_workflow_steps (lines 103-116).
StartKnown(r) ==
    /\ pc[r] = "idle"
    /\ \E team \in TeamInputs,
          ticket \in KnownIds.servicenow_ticket_id,
          channel \in KnownIds.slack_channel_id,
          page \in KnownIds.confluence_page_id :
          /\ incident' = [incident EXCEPT ![r] =
                 [Incident(r, "low", team.category) EXCEPT
                     !.servicenow_ticket_id = ticket,
                     !.slack_channel_id = channel,
                     !.confluence_page_id = page]]
          /\ team_members' = [team_members EXCEPT ![r] = team.roster]
    /\ pc' = [pc EXCEPT ![r] = "planning"]
    /\ before' = [before EXCEPT ![r] = incident'[r]]
    /\ UNCHANGED <<agent_vars, playbook_vars, features, selection, active_workflows, context, done, result, awaiting,
                   ai_outcome, caller_error, log>>

KnownNext ==
    \E r \in SoloRuns :
        \/ StartKnown(r)
        \/ PlanReturned(r)
        \/ BeginWorkflow(r)
        \/ Dispatch(r)
        \/ CollaboratorReturns(r)
        \/ RecordResult(r)
        \/ CompleteWorkflow(r)

KnownSpec == Init /\ [][KnownNext]_vars

-----------------------------------------------------------------------------
(* The fixed playbook: IncidentResponseWorkflow.execute_workflow *)

\* A stage is evaluated on the incident it was entered with and on the answers
\* its collaborator calls have got so far.  It is either suspended on its next
\* call or has returned its record.
Awaits(call, inc) ==
    [pending |-> TRUE, call |-> call, record |-> EmptyDict, incident |-> inc]

Completes(record, inc) ==
    [pending |-> FALSE, call |-> NoCall, record |-> record, incident |-> inc]

\* Variant of Caught that leaves the stage record as it was.
CaughtSilently(record, exc) == record

\* The except clause every stage ends with: the fault is recorded in the
\* stage record.
Caught(record, exc) == With(With(record, "status", "failed"), "error", exc)

\* result as every stage builds it first (started_at left out).
StageRecord(step) == [step |-> step, status |-> "pending"]

Success(reply) == GetOr(reply.value, "success", FALSE)

get_priority(severity) ==
    CASE severity = "critical" -> "P1"
      [] severity = "high"     -> "P2"
      [] severity = "medium"   -> "P3"
      [] severity = "low"      -> "P4"
      [] OTHER                 -> "P3"

\* Lines 158-206.
step1_create_servicenow_ticket(inc, ans) ==
    LET rec == StageRecord("Create ServiceNow Ticket")
        call == Call("servicenow.create_incident", [incident |-> inc.id])
    IN  IF Len(ans) < 1 THEN Awaits(call, inc)
        ELSE IF ans[1].raised THEN Completes(Caught(rec, ans[1].exc), inc)
        ELSE IF Success(ans[1])
        THEN Completes(
                 [ step |-> rec.step,
                   status |-> "completed",
                   ticket_number |-> Get(ans[1].value, "number"),
                   ticket_link |-> Get(ans[1].value, "link"),
                   classification |-> [ severity |-> inc.severity,
                                        category |-> inc.category,
                                        priority |-> get_priority(inc.severity) ] ],
                 [inc EXCEPT !.servicenow_ticket_id = Get(ans[1].value, "number")])
        ELSE Completes(With(With(rec, "status", "failed"),
                            "error", Get(ans[1].value, "error")),
                       inc)

INCIDENT_CHANNEL == "#incident-response"

\* Lines 246-254.  The adjacent string literals make one string, and the
\* conditional expression applies to all of it: the message is the empty
\* string when the incident has no channel.  A message is kept as the
\* sequence of the values its lines show.
alert_message(inc) ==
    IF Truthy(inc.slack_channel_id)
    THEN << inc.severity, inc.category,
            IF Truthy(inc.servicenow_ticket_id) THEN inc.servicenow_ticket_id
            ELSE "Creating...",
            inc.slack_channel_id >>
    ELSE << >>

\* Lines 210-277.
step2_send_slack_alert(inc, ans) ==
    LET rec == StageRecord("Send Slack Alert")
        call1 == Call("slack.create_incident_channel", [incident |-> inc.id])
        created == Len(ans) >= 1 /\ ~ans[1].raised /\ Success(ans[1])
        inc1 == IF created
                THEN [inc EXCEPT !.slack_channel_id = Get(ans[1].value, "channel_id")]
                ELSE inc
        rec1 == IF created
                   THEN With(With(rec, "incident_channel",
                                  Get(ans[1].value, "channel_name")),
                             "channel_link", Get(ans[1].value, "link"))
                   ELSE rec
        call2 == Call("slack.notify_team",
                      [channel |-> INCIDENT_CHANNEL, message |-> alert_message(inc1)])
    IN  IF Len(ans) < 1 THEN Awaits(call1, inc)
        ELSE IF ans[1].raised THEN Completes(Caught(rec, ans[1].exc), inc)
        ELSE IF Len(ans) < 2 THEN Awaits(call2, inc1)
        ELSE IF ans[2].raised THEN Completes(Caught(rec1, ans[2].exc), inc1)
        ELSE IF Success(ans[2])
        THEN Completes(With(With(With(rec1, "status", "completed"),
                                 "alert_sent", TRUE),
                            "alert_channel", INCIDENT_CHANNEL),
                       inc1)
        ELSE Completes(With(With(rec1, "status", "partial"),
                            "error", Get(ans[2].value, "error")),
                       inc1)

\* repositories is left at its default: the one repository
\* f"{config.github.org}/main-app" (line 305).
Repository == "org/main-app"

\* Lines 281-378, for the one repository.  The placeholders error_logs and
\* metrics are constants of the code and are kept as their status.
step3_gather_diagnostics(inc, ans) ==
    LET rec == With(StageRecord("Gather Diagnostic Information"),
                       "diagnostics", EmptyDict)
        call1 == Call("github.analyze_recent_commits",
                      [repo_name |-> Repository,
                       hours_back |-> IF inc.severity \in {"critical", "high"}
                                      THEN 48 ELSE 72])
        call2 == Call("github.get_recent_deployments",
                      [repo_name |-> Repository, environment |-> "production"])
        call3 == Call("github.get_workflow_runs",
                      [repo_name |-> Repository, status |-> "failure"])
        commits_data ==
            IF Success(ans[1])
            THEN << [ repository |-> Repository,
                      total_commits |-> GetOr(ans[1].value, "total_commits", "0"),
                      commits |-> IF "commits" \in DOMAIN ans[1].value
                                  THEN << ans[1].value.commits >> ELSE << >> ] >>
            ELSE << >>
        deployment_data ==
            IF Success(ans[2])
            THEN << [ repository |-> Repository,
                      deployments |-> GetOr(ans[2].value, "deployments", << >>) ] >>
            ELSE << >>
        workflow_data ==
            IF Success(ans[3])
            THEN << [ repository |-> Repository,
                      failed_runs |-> GetOr(ans[3].value, "runs", << >>) ] >>
            ELSE << >>
        rec1 == With(rec, "diagnostics", [recent_commits |-> commits_data])
        rec2 == With(rec, "diagnostics",
                        [recent_commits |-> commits_data,
                         recent_deployments |-> deployment_data])
        rec3 == With(With(rec, "diagnostics",
                             [recent_commits |-> commits_data,
                              recent_deployments |-> deployment_data,
                              failed_workflows |-> workflow_data,
                              error_logs |-> "collected",
                              metrics |-> "collected"]),
                        "status", "completed")
    IN  IF Len(ans) < 1 THEN Awaits(call1, inc)
        ELSE IF ans[1].raised THEN Completes(Caught(rec, ans[1].exc), inc)
        ELSE IF Len(ans) < 2 THEN Awaits(call2, inc)
        ELSE IF ans[2].raised THEN Completes(Caught(rec1, ans[2].exc), inc)
        ELSE IF Len(ans) < 3 THEN Awaits(call3, inc)
        ELSE IF ans[3].raised THEN Completes(Caught(rec2, ans[3].exc), inc)
        ELSE Completes(rec3, inc)

RECURSIVE Flatten(_)
Flatten(lists) ==
    IF lists = << >> THEN << >> ELSE Head(lists) \o Flatten(Tail(lists))

\* Lines 659-695.
generate_recommendations(inc, diagnostics) ==
    LET diag == GetOr(diagnostics, "diagnostics", EmptyDict)
        deployments == GetOr(diag, "recent_deployments", << >>)
        failed_workflows == GetOr(diag, "failed_workflows", << >>)
        HasDeployments(repo_data) == GetOr(repo_data, "deployments", << >>) # << >>
        HasFailedRuns(repo_data) == GetOr(repo_data, "failed_runs", << >>) # << >>
        rollback == SelectSeq(deployments, HasDeployments)
        builds == SelectSeq(failed_workflows, HasFailedRuns)
        category_recs ==
            [ database       |-> "Check database connection pools",
              infrastructure |-> "Verify container/pod health",
              network        |-> "Check DNS resolution",
              security       |-> "Review authentication logs",
              application    |-> "Check application logs" ]
    IN  [k \in 1..Len(rollback) |-> "consider rollback"]
        \o [k \in 1..Len(builds) |-> "investigate build failures"]
        \o (IF inc.category \in DOMAIN category_recs
            THEN << category_recs[inc.category] >> ELSE << >>)

\* Lines 382-443.
step4_analyze_root_cause(inc, diagnostics, ans) ==
    LET rec == StageRecord("Analyze Root Cause")
        diag == GetOr(diagnostics, "diagnostics", EmptyDict)
        recent_commits ==
            LET data == GetOr(diag, "recent_commits", << >>)
            IN  Flatten([k \in 1..Len(data) |-> GetOr(data[k], "commits", << >>)])
        call1 == Call("ai.generate_root_cause_hypothesis",
                      [incident |-> inc.id, recent_changes |-> recent_commits,
                       metrics |-> Get(diag, "metrics")])
        hypothesis == ans[1].value
        inc1 == [inc EXCEPT !.root_cause_hypothesis = hypothesis]
        rec1 == [ step |-> rec.step,
                  status |-> "completed",
                  hypothesis |-> hypothesis,
                  recommendations |-> generate_recommendations(inc1, diagnostics),
                  confidence |-> "medium",
                  analyzed_commits |-> Len(recent_commits) ]
        call2 == Call("slack.post_incident_update",
                      [channel |-> inc.slack_channel_id,
                       update_type |-> "analysis_complete"])
    IN  IF Len(ans) < 1 THEN Awaits(call1, inc)
        ELSE IF ans[1].raised THEN Completes(Caught(rec, ans[1].exc), inc)
        ELSE IF ~Truthy(inc.slack_channel_id) THEN Completes(rec1, inc1)
        ELSE IF Len(ans) < 2 THEN Awaits(call2, inc1)
        ELSE IF ans[2].raised THEN Completes(Caught(rec1, ans[2].exc), inc1)
        ELSE Completes(rec1, inc1)

\* Lines 447-500.
step5_create_confluence_page(inc, ans) ==
    LET rec == StageRecord("Create Confluence Incident Page")
        call1 == Call("confluence.create_postmortem", [incident |-> inc.id])
        inc1 == [inc EXCEPT !.confluence_page_id = Get(ans[1].value, "page_id")]
        rec1 == [ step |-> rec.step,
                  status |-> "completed",
                  page_id |-> Get(ans[1].value, "page_id"),
                  page_url |-> Get(ans[1].value, "page_url"),
                  page_title |-> Get(ans[1].value, "title") ]
        call2 == Call("slack.post_incident_update",
                      [channel |-> inc.slack_channel_id,
                       update_type |-> "status_change"])
    IN  IF Len(ans) < 1 THEN Awaits(call1, inc)
        ELSE IF ans[1].raised THEN Completes(Caught(rec, ans[1].exc), inc)
        ELSE IF ~Success(ans[1])
        THEN Completes(With(With(rec, "status", "failed"),
                            "error", Get(ans[1].value, "error")),
                       inc)
        ELSE IF ~Truthy(inc.slack_channel_id) THEN Completes(rec1, inc1)
        ELSE IF Len(ans) < 2 THEN Awaits(call2, inc1)
        ELSE IF ans[2].raised THEN Completes(Caught(rec1, ans[2].exc), inc1)
        ELSE Completes(rec1, inc1)

\* Lines 697-726: the first on-call member, else the first member with a
\* skill of the incident's category, else the first member.
select_assignee(inc, members) ==
    LET IsOnCall(m) == m.on_call
        on_call == SelectSeq(members, IsOnCall)
        assignee_skills ==
            [ database       |-> {"dba", "postgresql", "mysql", "sql"},
              infrastructure |-> {"sre", "devops", "kubernetes"},
              security       |-> {"security", "soc"},
              network        |-> {"networking", "dns"},
              application    |-> {"backend", "developer"} ]
        relevant_skills == GetOr(assignee_skills, inc.category, {})
        IsSkilled(m) == m.skills \cap relevant_skills # {}
        skilled == SelectSeq(members, IsSkilled)
    IN  IF on_call # << >> THEN on_call[1]
        ELSE IF skilled # << >> THEN skilled[1]
        ELSE members[1]

\* Lines 728-745.
select_response_team(inc, all_members) ==
    LET IsOnCall(m) == m.on_call
        on_call == SelectSeq(all_members, IsOnCall)
    IN  AppendUnselected(SubSeq(on_call, 1, Min(2, Len(on_call))), all_members)

\* Lines 504-578.  A TeamMember always has an email (models.py line 121), and
\* its name is shown as its id.
step6_assign_and_notify(inc, members, ans) ==
    LET rec == StageRecord("Assign and Notify")
        call1 == Call("jira.create_incident_issue", [incident |-> inc.id])
        created == Success(ans[1])
        assigns == created /\ members # << >>
        relevant_member == select_assignee(inc, members)
        call_assign == Call("jira.assign_issue",
                            [issue_key |-> Get(ans[1].value, "issue_key"),
                             assignee |-> relevant_member.id])
        rec1 == IF created
                THEN With(With(rec, "jira_issue", Get(ans[1].value, "issue_key")),
                          "jira_url", Get(ans[1].value, "issue_url"))
                ELSE rec
        rec2 == IF assigns THEN With(rec1, "assigned_to", relevant_member.id)
                ELSE rec1
        inc2 == IF assigns
                THEN [inc EXCEPT !.assigned_responders = Append(@, relevant_member.id)]
                ELSE inc
        after_assign == IF assigns THEN 2 ELSE 1
        assembles == members # << >> /\ Truthy(inc.slack_channel_id)
        call_assemble == Call("slack.assemble_response_team",
                              [channel |-> inc.slack_channel_id,
                               team_members |-> select_response_team(inc2, members)])
        at_assemble == after_assign + 1
        rec3 == IF assembles
                THEN With(rec2, "team_assembled",
                          GetOr(ans[at_assemble].value, "assembled_count", 0))
                ELSE rec2
        after_assemble == IF assembles THEN at_assemble ELSE after_assign
        posts == Truthy(inc.slack_channel_id)
        call_post == Call("slack.post_incident_update",
                          [channel |-> inc.slack_channel_id,
                           update_type |-> "team_assigned",
                           details |-> << GetOr(rec3, "jira_url", "N/A"),
                                          IF Truthy(inc2.servicenow_ticket_id)
                                          THEN inc2.servicenow_ticket_id ELSE "N/A",
                                          IF Truthy(inc2.confluence_page_id)
                                          THEN inc2.confluence_page_id ELSE "N/A",
                                          GetOr(rec3, "assigned_to", "Unassigned") >>])
        at_post == after_assemble + 1
    IN  IF Len(ans) < 1 THEN Awaits(call1, inc)
        ELSE IF ans[1].raised THEN Completes(Caught(rec, ans[1].exc), inc)
        ELSE IF assigns /\ Len(ans) < 2 THEN Awaits(call_assign, inc)
        ELSE IF assigns /\ ans[2].raised THEN Completes(Caught(rec1, ans[2].exc), inc)
        ELSE IF assembles /\ Len(ans) < at_assemble THEN Awaits(call_assemble, inc2)
        ELSE IF assembles /\ ans[at_assemble].raised
        THEN Completes(Caught(rec2, ans[at_assemble].exc), inc2)
        ELSE IF posts /\ Len(ans) < at_post THEN Awaits(call_post, inc2)
        ELSE IF posts /\ ans[at_post].raised
        THEN Completes(Caught(rec3, ans[at_post].exc), inc2)
        ELSE Completes(With(rec3, "status", "completed"), inc2)

\* Lines 582-646.  acknowledged_at is left out.
step7_monitor_and_update(inc, ans) ==
    LET rec == StageRecord("Monitor and Update")
        inc1 == [inc EXCEPT !.status = "in_progress"]
        notes == Truthy(inc.servicenow_ticket_id)
        call_note == Call("servicenow.add_work_note",
                          [sys_id |-> inc.servicenow_ticket_id])
        after_note == IF notes THEN 1 ELSE 0
        notifies == Truthy(inc.slack_channel_id)
        call_notify == Call("slack.notify_team",
                            [channel |-> inc.slack_channel_id,
                             message |-> << inc1.status >>])
        at_notify == after_note + 1
    IN  IF notes /\ Len(ans) < 1 THEN Awaits(call_note, inc1)
        ELSE IF notes /\ ans[1].raised THEN Completes(Caught(rec, ans[1].exc), inc1)
        ELSE IF notifies /\ Len(ans) < at_notify THEN Awaits(call_notify, inc1)
        ELSE IF notifies /\ ans[at_notify].raised
        THEN Completes(Caught(rec, ans[at_notify].exc), inc1)
        ELSE Completes(
                 [ step |-> rec.step,
                   status |-> "completed",
                   monitoring_active |-> TRUE,
                   incident_status |-> inc1.status,
                   tracking_enabled |->
                       [ servicenow |-> Truthy(inc1.servicenow_ticket_id),
                         slack |-> Truthy(inc1.slack_channel_id),
                         confluence |-> Truthy(inc1.confluence_page_id),
                         jira |-> TRUE ] ],
                 inc1)

\* The keys the stage records are stored under (lines 115-136).
StageKeys ==
    << "1_create_servicenow_ticket", "2_send_slack_alert", "3_gather_diagnostics",
       "4_analyze_root_cause", "5_create_confluence_page", "6_assign_and_notify",
       "7_monitor_and_update" >>

\* d[key] on the dict of stage records.
Lookup(steps, key) ==
    LET Has(item) == item.key = key
        found == SelectSeq(steps, Has)
    IN  IF found = << >> THEN EmptyDict ELSE found[1].value

\* Variant of Put that stores a new key in front of the others.
PutInFront(steps, key, value) == << [key |-> key, value |-> value] >> \o steps

\* d[key] = value on the dict of stage records: a key that is there keeps its
\* place and gets the new value, a new key goes to the end.
Put(steps, key, value) ==
    IF \E n \in 1..Len(steps) : steps[n].key = key
    THEN [n \in 1..Len(steps) |->
             IF steps[n].key = key THEN [key |-> key, value |-> value] ELSE steps[n]]
    ELSE Append(steps, [key |-> key, value |-> value])

\* The call of stage k in the try block of execute_workflow (lines 113-136):
\* stage 4 is handed the record of stage 3.
stage(k, inc, members, steps, ans) ==
    CASE k = 1 -> step1_create_servicenow_ticket(inc, ans)
      [] k = 2 -> step2_send_slack_alert(inc, ans)
      [] k = 3 -> step3_gather_diagnostics(inc, ans)
      [] k = 4 -> step4_analyze_root_cause(inc, Lookup(steps, StageKeys[3]), ans)
      [] k = 5 -> step5_create_confluence_page(inc, ans)
      [] k = 6 -> step6_assign_and_notify(inc, members, ans)
      [] k = 7 -> step7_monitor_and_update(inc, ans)

\* The incidents execute_workflow is called with.
PlaybookSeverities == {"critical"}

\* The status the incident has when the playbook is started: the one a fresh
\* incident has, and a later one.
InitialStatuses == {"detected", "resolved"}

\* The first run is started for incident1, the second one for the same
\* incident or for another one.
IncidentsFor == [run1 |-> {"incident1"}, run2 |-> IncidentIds]

\* The playbook reads no feature flag.
PlaybookInit == Init /\ features = [f \in FeatureNames |-> TRUE]

\* Whether the environment may make the next call fail or fault.
MayFail == ~budget.limited \/ budget.left > 0

Spent == IF budget.limited THEN Budget(budget.left - 1) ELSE budget

\* The stage of run r that is running, at the point it has reached.
Running(r) ==
    stage(done[r] + 1, before[r], team_members[r], workflow_result[r].steps,
          answers[r])

\* execute_workflow is called: it builds workflow_result and stores the
\* registry entry under the incident's id (lines 91-111).
ExecuteWorkflow(r) ==
    /\ pc[r] = "idle"
    /\ \E id \in IncidentsFor[r], severity \in PlaybookSeverities,
          status \in InitialStatuses, team \in TeamInputs :
          /\ incident' = [incident EXCEPT
                 ![r] = [Incident(id, severity, team.category) EXCEPT !.status = status]]
          /\ team_members' = [team_members EXCEPT ![r] = team.roster]
          /\ workflow_result' = [workflow_result EXCEPT ![r] = WorkflowResult(id)]
          /\ active_incidents' = [active_incidents EXCEPT ![id] = Entry(r)]
    /\ pc' = [pc EXCEPT ![r] = "entering"]
    /\ before' = [before EXCEPT ![r] = incident'[r]]
    /\ UNCHANGED <<agent_vars, features, selection, active_workflows, context, done, result,
                   awaiting, ai_outcome, caller_error, log, answers, budget>>

\* The next stage is called and runs up to its first await.
EnterStage(r) ==
    /\ pc[r] = "entering"
    /\ done[r] < Len(StageKeys)
    /\ pc' = [pc EXCEPT ![r] = "in_stage"]
    /\ before' = [before EXCEPT ![r] = incident[r]]
    /\ answers' = [answers EXCEPT ![r] = << >>]
    /\ incident' = [incident EXCEPT
           ![r] = stage(done[r] + 1, incident[r], team_members[r],
                        workflow_result[r].steps, << >>).incident]
    /\ log' = [log EXCEPT
           ![r] = Append(@, Event("stage", done[r] + 1, StageKeys[done[r] + 1],
                                  EmptyDict))]
    /\ UNCHANGED <<agent_vars, features, selection, team_members, active_workflows, context, done,
                   result, awaiting, ai_outcome, caller_error, workflow_result,
                   active_incidents, budget>>

\* The call the stage is suspended on ends, and the stage runs up to its
\* next await or to its return statement.
StageCalls(r) ==
    /\ pc[r] = "in_stage"
    /\ Running(r).pending
    /\ LET call == Running(r).call
       IN  \E outcome \in Outcomes(call.op) :
              LET reply == Reply(call.op, call.arg, outcome)
                  ans == Append(answers[r], reply)
              IN  /\ outcome # "ok" => MayFail
                  /\ budget' = IF outcome # "ok" THEN Spent ELSE budget
                  /\ answers' = [answers EXCEPT ![r] = ans]
                  /\ incident' = [incident EXCEPT
                         ![r] = stage(done[r] + 1, before[r], team_members[r],
                                      workflow_result[r].steps, ans).incident]
                  /\ log' = [log EXCEPT
                         ![r] = Append(@, Event("call", done[r] + 1, call.op,
                                                call.arg))]
    /\ UNCHANGED <<agent_vars, features, selection, team_members, active_workflows, context, done,
                   result, awaiting, ai_outcome, caller_error, before, pc,
                   workflow_result, active_incidents>>

\* The stage returns its record and execute_workflow stores it.
StageReturns(r) ==
    /\ pc[r] = "in_stage"
    /\ ~Running(r).pending
    /\ workflow_result' = [workflow_result EXCEPT
           ![r].steps = Put(@, StageKeys[done[r] + 1], Running(r).record)]
    /\ done' = [done EXCEPT ![r] = @ + 1]
    /\ answers' = [answers EXCEPT ![r] = << >>]
    /\ pc' = [pc EXCEPT ![r] = "entering"]
    /\ UNCHANGED <<agent_vars, features, selection, incident, team_members, active_workflows,
                   context, result, awaiting, ai_outcome, caller_error, log, before,
                   active_incidents, budget>>

\* Variant of top_level_except that clears the flag only.
top_level_except_flag_only(wr, exc) == [wr EXCEPT !.success = FALSE]

\* Variant of top_level_except that records nothing.
top_level_except_silent(wr, exc) == wr

\* Lines 149-152.
top_level_except(wr, exc) ==
    [wr EXCEPT !.success = FALSE, !.errors = Append(@, exc)]

\* A statement of a stage that is not inside the stage's try block faults:
\* one before it (the logger call, the construction of the record) or the one
\* after it (the completed_at item).  The fault leaves the stage, is caught
\* at lines 149-152, and workflow_result is returned (line 154).
FaultEscapes(r) ==
    /\ \/ pc[r] = "entering" /\ done[r] < Len(StageKeys)
       \/ pc[r] = "in_stage" /\ ~Running(r).pending
    /\ workflow_result' = [workflow_result EXCEPT
           ![r] = top_level_except(@, FaultText)]
    /\ log' = [log EXCEPT
           ![r] = Append(@, Event("escape", done[r] + 1, FaultText, EmptyDict))]
    /\ answers' = [answers EXCEPT ![r] = << >>]
    /\ pc' = [pc EXCEPT ![r] = "finished"]
    /\ UNCHANGED <<agent_vars, features, selection, incident, team_members, active_workflows,
                   context, done, result, awaiting, ai_outcome, caller_error, before,
                   active_incidents, budget>>

\* All seven stages have returned: completed_at is set and workflow_result
\* is returned (lines 138-147, 154).
ReturnResult(r) ==
    /\ pc[r] = "entering"
    /\ done[r] = Len(StageKeys)
    /\ workflow_result' = [workflow_result EXCEPT ![r].completed_at = "utcnow"]
    /\ pc' = [pc EXCEPT ![r] = "finished"]
    /\ UNCHANGED <<agent_vars, features, selection, incident, team_members, active_workflows,
                   context, done, result, awaiting, ai_outcome, caller_error, log,
                   before, answers, active_incidents, budget>>

PlaybookStep(r) ==
    \/ ExecuteWorkflow(r)
    \/ EnterStage(r)
    \/ StageCalls(r)
    \/ StageReturns(r)
    \/ FaultEscapes(r)
    \/ ReturnResult(r)

PlaybookNext == \E r \in SoloRuns : PlaybookStep(r)

\* One run of the playbook, with collaborators that may fail at every call.
PlaybookSpec == PlaybookInit /\ [][PlaybookNext]_vars

\* Two runs of the playbook on one event loop: a run gives way to the other
\* at each await, and the second run may be started for the incident of the
\* first.  MaxFaults collaborator calls at most fail or fault; a fault of a
\* stage's own statements may leave any stage.
RegistryInit ==
    /\ pc = [r \in Runs |-> "idle"]
    /\ features = [f \in FeatureNames |-> TRUE]
    /\ incident = [r \in Runs |-> Incident(r, "low", "unknown")]
    /\ team_members = [r \in Runs |-> << >>]
    /\ active_workflows = [r \in Runs |-> NoWorkflow]
    /\ context = [r \in Runs |-> EmptyDict]
    /\ done = [r \in Runs |-> 0]
    /\ result = [r \in Runs |-> Returns(NoResult)]
    /\ awaiting = [r \in Runs |-> NoCall]
    /\ ai_outcome = [r \in Runs |-> "none"]
    /\ caller_error = [r \in Runs |-> None]
    /\ log = [r \in Runs |-> << >>]
    /\ before = incident
    /\ selection = [r \in Runs |-> << >>]
    /\ workflow_result = [r \in Runs |-> NoWorkflowResult]
    /\ active_incidents = [id \in IncidentIds |-> NoEntry]
    /\ answers = [r \in Runs |-> << >>]
    /\ budget = Budget(MaxFaults)
    /\ report = NoReport
    /\ classification = NoClassification

RegistryNext == \E r \in Runs : PlaybookStep(r)

RegistrySpec == RegistryInit /\ [][RegistryNext]_vars

-----------------------------------------------------------------------------
(* The responder selector on its own *)

\* The people a roster is made of: three on call and three not, with skills
\* of the database and application categories, of another one, or none.
Members ==
    { TeamMember("1", {"python"}, TRUE),
      TeamMember("2", {"postgresql", "dba"}, TRUE),
      TeamMember("3", {}, TRUE),
      TeamMember("4", {"postgresql", "sql"}, FALSE),
      TeamMember("5", {"frontend", "react"}, FALSE),
      TeamMember("6", {"kubernetes"}, FALSE) }

\* A roster is a list of members; nothing keeps a member from being listed twice.
Rosters == UNION { [1..n -> Members] : n \in 0..MaxRoster }

SelectorCategories == {"database", "unknown"}

SelectorInit ==
    /\ pc = [r \in Runs |-> "idle"]
    /\ features \in {[f \in FeatureNames |-> TRUE]}
    /\ \E category \in SelectorCategories :
          incident = [r \in Runs |-> Incident(r, "high", category)]
    /\ \E roster \in Rosters : team_members = [r \in Runs |-> roster]
    /\ active_workflows = [r \in Runs |-> NoWorkflow]
    /\ context = [r \in Runs |-> EmptyDict]
    /\ done = [r \in Runs |-> 0]
    /\ result = [r \in Runs |-> Returns(NoResult)]
    /\ awaiting = [r \in Runs |-> NoCall]
    /\ ai_outcome = [r \in Runs |-> "none"]
    /\ caller_error = [r \in Runs |-> None]
    /\ log = [r \in Runs |-> << >>]
    /\ before = incident
    /\ selection = [r \in Runs |-> << >>]
    /\ workflow_result = [r \in Runs |-> NoWorkflowResult]
    /\ active_incidents = [id \in IncidentIds |-> NoEntry]
    /\ answers = [r \in Runs |-> << >>]
    /\ budget = Unlimited
    /\ report = NoReport
    /\ classification = NoClassification

\* _select_relevant_team_members(incident, all_members) is called and returns.
Select(r) ==
    /\ pc[r] = "idle"
    /\ selection' = [selection EXCEPT
          ![r] = select_relevant_team_members(incident[r], team_members[r])]
    /\ pc' = [pc EXCEPT ![r] = "selected"]
    /\ UNCHANGED <<agent_vars, playbook_vars, features, incident, team_members, active_workflows, context,
                   done, result, awaiting, ai_outcome, caller_error, log, before>>

SelectorNext == \E r \in SoloRuns : Select(r)

SelectorSpec == SelectorInit /\ [][SelectorNext]_vars

-----------------------------------------------------------------------------
(* agents/incident_agent.py: quick_classify on its own *)

\* The words a title or a description is made of: words that are keywords or
\* hold one inside them, in several spellings, and a word that holds none.
\*   Download slow latency DNS Something minor
Words ==
    { <<"D", "o", "w", "n", "l", "o", "a", "d">>,
      <<"s", "l", "o", "w">>,
      <<"l", "a", "t", "e", "n", "c", "y">>,
      <<"D", "N", "S">>,
      <<"S", "o", "m", "e", "t", "h", "i", "n", "g">>,
      <<"m", "i", "n", "o", "r">> }

\* " ".join(words)
RECURSIVE Join(_)
Join(words) ==
    IF words = << >> THEN << >>
    ELSE IF Len(words) = 1 THEN words[1]
    ELSE words[1] \o << " " >> \o Join(Tail(words))

\* The titles: one to MaxWords words.
Titles == { Join(words) : words \in UNION { [1..n -> Words] : n \in 1..MaxWords } }

\* The descriptions: empty, or one word.
Descriptions == {<< >>} \cup Words

ClassifierInit ==
    /\ pc = [r \in Runs |-> "idle"]
    /\ features = [f \in FeatureNames |-> TRUE]
    /\ incident = [r \in Runs |-> Incident(r, "low", "unknown")]
    /\ team_members = [r \in Runs |-> << >>]
    /\ active_workflows = [r \in Runs |-> NoWorkflow]
    /\ context = [r \in Runs |-> EmptyDict]
    /\ done = [r \in Runs |-> 0]
    /\ result = [r \in Runs |-> Returns(NoResult)]
    /\ awaiting = [r \in Runs |-> NoCall]
    /\ ai_outcome = [r \in Runs |-> "none"]
    /\ caller_error = [r \in Runs |-> None]
    /\ log = [r \in Runs |-> << >>]
    /\ before = incident
    /\ selection = [r \in Runs |-> << >>]
    /\ workflow_result = [r \in Runs |-> NoWorkflowResult]
    /\ active_incidents = [id \in IncidentIds |-> NoEntry]
    /\ answers = [r \in Runs |-> << >>]
    /\ budget = Unlimited
    /\ \E title \in Titles, description \in Descriptions :
          report = [title |-> title, description |-> description]
    /\ classification = NoClassification

\* quick_classify(title, description) is called and returns.
Classify ==
    /\ classification = NoClassification
    /\ classification' = quick_classify(report.title, report.description)
    /\ UNCHANGED <<playbook_vars, features, selection, pc, incident, team_members,
                   active_workflows, context, done, result, awaiting, ai_outcome,
                   caller_error, log, before, report>>

ClassifierNext == Classify

ClassifierSpec == ClassifierInit /\ [][ClassifierNext]_vars

-----------------------------------------------------------------------------
(* Properties *)

Steps(r) == active_workflows[r].steps

HasEvent(r, ev, i) ==
    \E k \in 1..Len(log[r]) : log[r][k].ev = ev /\ log[r][k].step = i

InLoop(r) == pc[r] \in {"loop", "awaiting", "returned"}

\* The step whose _execute_step call has returned and is not recorded yet.
JustReturned(r, i) == pc[r] = "returned" /\ done[r] + 1 = i

C2_HandlerFaultContained ==
    \A r \in Runs : \A k \in 1..Len(log[r]) :
        log[r][k].ev = "fault" =>
            LET i == log[r][k].step
            IN  /\ Steps(r)[i].action \in ActionHandlers
                /\ caller_error[r] = None
                /\ JustReturned(r, i) =>
                      /\ ~result[r].raised
                      /\ ~result[r].value.success
                      /\ result[r].value.error = log[r][k].what
                /\ done[r] >= i => Steps(r)[i].status = "failed"
                /\ done[r] < i => JustReturned(r, i)

C2_Witness ==
    \E r \in Runs : \E k \in 1..Len(log[r]) :
        /\ log[r][k].ev = "fault"
        /\ done[r] >= log[r][k].step
        /\ Steps(r)[log[r][k].step].status = "failed"
        /\ pc[r] = "done"

\* C3: a step whose action has no handler gets a failed ActionResult, calls no
\* collaborator and leaves the incident as it was.
C3_UnknownActionFailsFast ==
    \A r \in Runs : \A i \in 1..Len(Steps(r)) :
        Steps(r)[i].action \notin ActionHandlers =>
            /\ ~HasEvent(r, "handler", i)
            /\ ~HasEvent(r, "call", i)
            /\ JustReturned(r, i) =>
                  /\ ~result[r].raised
                  /\ ~result[r].value.success
                  /\ incident[r] = before[r]
            /\ done[r] >= i =>
                  /\ Steps(r)[i].status = "failed"
                  /\ ~context[r][Steps(r)[i].action].success
            /\ (done[r] = i /\ pc[r] \in {"loop", "done"}) => incident[r] = before[r]

C3_Witness ==
    \E r \in Runs : \E i \in 1..Len(Steps(r)) :
        /\ Steps(r)[i].action \notin ActionHandlers
        /\ done[r] = i
        /\ Steps(r)[i].status = "failed"
        /\ incident[r].servicenow_ticket_id # None

\* C4: every started run eventually has workflow status completed.
C4_RunCompletes ==
    \A r \in Runs :
        (pc[r] = "planning") ~> (active_workflows[r].status = "completed")

C4_Witness ==
    \E r \in Runs :
        /\ active_workflows[r].status = "completed"
        /\ \E i \in 1..Len(Steps(r)) : Steps(r)[i].status = "failed"
        /\ \E i \in 1..Len(Steps(r)) : Steps(r)[i].status = "completed"

\* C5: in a completed workflow every step is completed, failed or skipped.
C5_CompletedHasNoOpenStep ==
    \A r \in Runs :
        active_workflows[r].status = "completed" =>
            \A i \in 1..Len(Steps(r)) :
                Steps(r)[i].status \in {"completed", "failed", "skipped"}

C5_Witness ==
    \E r \in Runs :
        /\ active_workflows[r].status = "completed"
        /\ Len(Steps(r)) >= 3
        /\ Steps(r)[1].status = "failed"
        /\ Steps(r)[2].status = "failed"

StepMoves ==
    { <<"pending", "running">>, <<"running", "completed">>, <<"running", "failed">> }

\* C7: a step starts pending and its status changes only from pending to
\* running and from running to completed or failed.
C7_StepTransitions ==
    [][ \A r \in Runs :
          LET old == active_workflows[r].steps
              new == active_workflows'[r].steps
          IN  IF active_workflows[r].status = "absent"
              THEN \A i \in 1..Len(new) : new[i].status = "pending"
              ELSE /\ Len(new) = Len(old)
                   /\ \A i \in 1..Len(old) :
                         \/ new[i].status = old[i].status
                         \/ <<old[i].status, new[i].status>> \in StepMoves ]_vars

C7_Witness ==
    \E r \in Runs : \E i, j \in 1..Len(Steps(r)) :
        /\ Steps(r)[i].status = "completed"
        /\ Steps(r)[j].status = "running"
        /\ pc[r] = "returned"

WorkflowMoves ==
    { <<"absent", "pending">>, <<"pending", "running">>, <<"running", "completed">> }

\* C8: the status of a workflow changes only from pending (at its creation) to
\* running and from running to completed, whatever its steps' outcomes.
C8_WorkflowTransitions ==
    [][ \A r \in Runs :
          \/ active_workflows'[r].status = active_workflows[r].status
          \/ <<active_workflows[r].status, active_workflows'[r].status>>
                \in WorkflowMoves ]_vars

C8_Witness ==
    \E r \in Runs :
        /\ active_workflows[r].status = "completed"
        /\ Len(Steps(r)) >= 2
        /\ \A i \in 1..Len(Steps(r)) : Steps(r)[i].status = "failed"

\* A step as the builder made it.
Descriptor(step) ==
    [ name |-> step.name, action |-> step.action,
      target_tool |-> step.target_tool, parameters |-> step.parameters ]

Descriptors(steps) == [ i \in 1..Len(steps) |-> Descriptor(steps[i]) ]

ActionsOf(steps) == [ i \in 1..Len(steps) |-> steps[i].action ]

\* The dispatch events of a run, in order.
Dispatched(r) ==
    LET IsDispatch(e) == e.ev = "dispatch"
        events == SelectSeq(log[r], IsDispatch)
    IN  [ k \in 1..Len(events) |-> events[k].what ]

IsPrefix(s, t) == Len(s) <= Len(t) /\ s = SubSeq(t, 1, Len(s))

\* C9: when the Decision Provider raises or answers something unparsable, no
\* error reaches the caller and the workflow that is executed is the fallback
\* plan of the incident.
C9_PlanningFailureFallsBack ==
    \A r \in Runs :
        ai_outcome[r] \in {"raise", "garbage"} =>
            /\ caller_error[r] = None
            /\ pc[r] # "raised"
            /\ active_workflows[r].status # "absent"
            /\ Descriptors(Steps(r)) =
                  Descriptors(get_default_workflow_steps(incident[r]))
            /\ IsPrefix(Dispatched(r), ActionsOf(get_default_workflow_steps(incident[r])))
            /\ pc[r] = "done" => Len(Dispatched(r)) = Len(Steps(r))

C9_Witness ==
    \E r \in Runs :
        /\ ai_outcome[r] = "garbage"
        /\ pc[r] = "done"
        /\ Len(Dispatched(r)) = 5

\* C10: the fallback plan is create_ticket, create_channel, notify_team,
\* analyze_commits, create_postmortem for a critical or high incident and
\* create_ticket, create_channel, create_postmortem for a medium or low one.
C10_FallbackPlanTable ==
    \A r \in Runs :
        ai_outcome[r] \in {"raise", "garbage"} =>
            ActionsOf(Steps(r)) =
                IF incident[r].severity \in {"critical", "high"}
                THEN << "create_ticket", "create_channel", "notify_team",
                        "analyze_commits", "create_postmortem" >>
                ELSE << "create_ticket", "create_channel", "create_postmortem" >>

C10_Witness ==
    \E r1 \in Runs :
        /\ ai_outcome[r1] = "raise"
        /\ incident[r1].severity = "high"
        /\ Len(Steps(r1)) = 5
        /\ pc[r1] = "done"

\* What C11 compares of a plan: the name, action and target of each step.
Outline(steps) ==
    [ i \in 1..Len(steps) |->
        <<steps[i].name, steps[i].action, steps[i].target_tool>> ]

Planned(r) == ai_outcome[r] \in {"raise", "garbage"}

\* C11: the fallback plan is total and depends on the severity only: a run
\* whose Decision Provider failed has a plan and no error, and two such runs
\* whose incidents have the same severity have plans with the same names,
\* actions and targets in the same order, whatever else differs between the
\* incidents.
C11_FallbackBySeverityAlone ==
    /\ \A r \in Runs :
          Planned(r) => /\ caller_error[r] = None
                        /\ pc[r] = "created"
                        /\ Len(Steps(r)) >= 3
    /\ \A r1, r2 \in Runs :
          (Planned(r1) /\ Planned(r2)
             /\ incident[r1].severity = incident[r2].severity)
          => Outline(Steps(r1)) = Outline(Steps(r2))

C11_Witness ==
    /\ Planned("run1") /\ Planned("run2")
    /\ incident["run1"].severity = "critical"
    /\ incident["run2"].severity = "critical"
    /\ incident["run1"].id # incident["run2"].id
    /\ incident["run1"].category # incident["run2"].category
    /\ Steps("run1") # Steps("run2")
    /\ Len(Steps("run2")) = 5

AllEnabled == \A f \in FeatureNames : features[f]

\* No collaborator call made for a step of the run reported failure or raised.
NoCallFailed(r) ==
    \A k \in 1..Len(log[r]) : log[r][k].ev \notin {"fault", "failure"}

AllCompleted(r) == \A i \in 1..Len(Steps(r)) : Steps(r)[i].status = "completed"

IdsSet(r) ==
    /\ Truthy(incident[r].servicenow_ticket_id)
    /\ Truthy(incident[r].slack_channel_id)
    /\ Truthy(incident[r].confluence_page_id)

\* C12 as stated: a run on a critical incident in which every collaborator
\* call succeeded ends completed, with every step completed and the ticket,
\* channel and document ids set.
C12_AllSucceed ==
    \A r \in Runs :
        (pc[r] = "done" /\ incident[r].severity = "critical" /\ NoCallFailed(r))
        => /\ active_workflows[r].status = "completed"
           /\ AllCompleted(r)
           /\ IdsSet(r)

\* C12, amended: the same, for a run with every capability enabled whose plan
\* has the steps of the fallback plan.
C12_AllSucceedOnFallbackPlan ==
    \A r \in Runs :
        (/\ pc[r] = "done"
         /\ incident[r].severity = "critical"
         /\ NoCallFailed(r)
         /\ AllEnabled
         /\ Outline(Steps(r)) = Outline(get_default_workflow_steps(incident[r])))
        => /\ active_workflows[r].status = "completed"
           /\ AllCompleted(r)
           /\ IdsSet(r)

C12_Witness ==
    \E r \in Runs :
        /\ pc[r] = "done"
        /\ incident[r].severity = "critical"
        /\ NoCallFailed(r)
        /\ AllEnabled
        /\ Len(Steps(r)) = 5
        /\ ActionsOf(Steps(r))[3] = "notify_team"
        /\ AllCompleted(r)
        /\ incident[r].servicenow_ticket_id = "INC0012345"
        /\ incident[r].confluence_page_id = "98765"

\* The steps of the run for which a collaborator call reported failure or raised.
FailedCalls(r) ==
    { log[r][k].step : k \in { n \in 1..Len(log[r]) :
                                 log[r][n].ev \in {"fault", "failure"} } }

\* The ticketing collaborator failed on create and no other call failed.
OnlyTicketCreateFailed(r) ==
    /\ FailedCalls(r) # {}
    /\ \A i \in FailedCalls(r) : Steps(r)[i].action = "create_ticket"

OnFallbackPlan(r) ==
    Outline(Steps(r)) = Outline(get_default_workflow_steps(incident[r]))

\* C13: when only the ticket creation fails, the run ends completed, the
\* create_ticket step is failed and carries a non-empty error text, the ticket
\* id is unset and every other step is completed.  Stated for the fallback
\* plan with every capability enabled.
C13_TicketFailureIsolated ==
    \A r \in Runs :
        (pc[r] = "done" /\ OnlyTicketCreateFailed(r) /\ AllEnabled /\ OnFallbackPlan(r))
        => /\ active_workflows[r].status = "completed"
           /\ incident[r].servicenow_ticket_id = None
           /\ \A i \in 1..Len(Steps(r)) :
                 IF Steps(r)[i].action = "create_ticket"
                 THEN /\ Steps(r)[i].status = "failed"
                      /\ Truthy(Steps(r)[i].error)
                 ELSE Steps(r)[i].status = "completed"

\* What does hold in the runs of C13: everything but the error text of the
\* step, which is found in the ActionResult of the step only.
C13_ExceptStepError ==
    \A r \in Runs :
        (pc[r] = "done" /\ OnlyTicketCreateFailed(r) /\ AllEnabled /\ OnFallbackPlan(r))
        => /\ active_workflows[r].status = "completed"
           /\ incident[r].servicenow_ticket_id = None
           /\ Truthy(context[r]["create_ticket"].error)
           /\ \A i \in 1..Len(Steps(r)) :
                 IF Steps(r)[i].action = "create_ticket"
                 THEN /\ Steps(r)[i].status = "failed"
                      /\ Steps(r)[i].error = None
                 ELSE Steps(r)[i].status = "completed"

\* The four fields of the incident that a step result may be written to.
MappedFields(inc) ==
    [ servicenow_ticket_id  |-> inc.servicenow_ticket_id,
      slack_channel_id      |-> inc.slack_channel_id,
      confluence_page_id    |-> inc.confluence_page_id,
      root_cause_hypothesis |-> inc.root_cause_hypothesis ]

\* The step that was recorded last, once the loop is back at its head.
Recorded(r) == pc[r] \in {"loop", "done"} /\ done[r] >= 1

\* C14: when a step has been recorded, the four fields of the incident are
\* those it had when the step was dispatched, but for the one field of a
\* successful create_ticket, create_channel, create_postmortem or
\* generate_hypothesis step, which holds the value of the step's result.
C14_UpdatesOnlyMappedFields ==
    \A r \in Runs :
        Recorded(r) =>
            LET step == Steps(r)[done[r]]
                res == context[r][step.action]
                was == MappedFields(before[r])
                key == [ create_ticket       |-> "number",
                         create_channel      |-> "channel_id",
                         create_postmortem   |-> "page_id",
                         generate_hypothesis |-> "hypothesis" ]
                field == [ create_ticket       |-> "servicenow_ticket_id",
                           create_channel      |-> "slack_channel_id",
                           create_postmortem   |-> "confluence_page_id",
                           generate_hypothesis |-> "root_cause_hypothesis" ]
            IN  MappedFields(incident[r]) =
                    IF res.success /\ step.action \in DOMAIN key
                    THEN [was EXCEPT ![field[step.action]] =
                             IF res.data # NoneData /\ key[step.action] \in DOMAIN res.data
                             THEN res.data[key[step.action]] ELSE None]
                    ELSE was

C14_Witness ==
    \E r \in Runs :
        /\ Recorded(r)
        /\ done[r] = 2
        /\ Steps(r)[1].action = "create_ticket"
        /\ Steps(r)[2].action = "create_channel"
        /\ before[r].servicenow_ticket_id = "INC0012345"
        /\ before[r].slack_channel_id = None
        /\ incident[r].servicenow_ticket_id = "INC0012345"
        /\ incident[r].slack_channel_id = "C024BE91L"

\* The last of the first n steps of the run that has the action of step i.
LastWith(r, i, n) ==
    CHOOSE j \in i..n :
        /\ Steps(r)[j].action = Steps(r)[i].action
        /\ \A k \in (j + 1)..n : Steps(r)[k].action # Steps(r)[i].action

\* Every recorded step's action has an entry, and the entry is the result of
\* the last recorded step with that action.
ResultsAreLastWrites ==
    \A r \in Runs : \A i \in 1..done[r] :
        LET action == Steps(r)[i].action
            last == Steps(r)[LastWith(r, i, done[r])]
        IN  /\ action \in DOMAIN context[r]
            /\ context[r][action].action = action
            /\ context[r][action].success = (last.status = "completed")
            /\ context[r][action].data = last.result

\* Recording a step writes its ActionResult under its action and nothing else.
RecordWritesResult ==
    \A r \in Runs :
        (pc[r] = "returned" /\ pc'[r] = "loop") =>
            LET action == Steps(r)[done[r] + 1].action
            IN  /\ DOMAIN context'[r] = DOMAIN context[r] \cup {action}
                /\ context'[r][action] = result[r].value
                /\ \A a \in DOMAIN context[r] \ {action} :
                      context'[r][a] = context[r][a]

\* C15: after each dispatched step context["results"] holds the step's
\* ActionResult under the step's action; every dispatched action has an
\* entry, and an action that occurs several times has the result of its last
\* step.
C15_ResultsLastWriteWins == []ResultsAreLastWrites /\ [][RecordWritesResult]_vars

C15_Witness ==
    \E r \in Runs :
        /\ pc[r] = "done"
        /\ Len(Steps(r)) = 2
        /\ Steps(r)[1].action = "create_ticket"
        /\ Steps(r)[2].action = "create_ticket"
        /\ Steps(r)[1].status = "completed"
        /\ Steps(r)[2].status = "failed"
        /\ ~context[r]["create_ticket"].success
        /\ DOMAIN context[r] = {"create_ticket"}

\* The failure and fault events of the run's collaborator calls.
CallFailures(r) ==
    { k \in 1..Len(log[r]) : log[r][k].ev \in {"fault", "failure"} }

\* An ActionResult carries error text in its error field or, when the
\* collaborator's answer is handed on as data, under the key error of its data.
CarriesErrorText(res) ==
    \/ Truthy(res.error)
    \/ res.data # NoneData /\ Truthy(Get(res.data, "error"))

\* The step of failure event k got a failed ActionResult with error text, and
\* nothing was raised to the caller.
FailureRecorded(r, k) ==
    LET i == log[r][k].step
    IN  /\ caller_error[r] = None
        /\ JustReturned(r, i) =>
              /\ ~result[r].raised
              /\ ~result[r].value.success
              /\ CarriesErrorText(result[r].value)
        /\ done[r] >= i => Steps(r)[i].status = "failed"

\* C16: whenever a collaborator call made for a step reports failure or
\* raises, the step's ActionResult has success=false and carries error text,
\* and nothing is raised past the dispatcher.
C16_CollaboratorFailureRecorded ==
    \A r \in Runs : \A k \in CallFailures(r) : FailureRecorded(r, k)

\* What does hold: C16 for the calls of every collaborator but the Decision
\* Provider, whose failure is returned as the text of the hypothesis.
C16_ExceptDecisionService ==
    \A r \in Runs : \A k \in CallFailures(r) :
        IF Steps(r)[log[r][k].step].action # "generate_hypothesis"
        THEN FailureRecorded(r, k)
        ELSE LET i == log[r][k].step
             IN  /\ caller_error[r] = None
                 /\ JustReturned(r, i) =>
                       /\ result[r].value.success
                       /\ result[r].value.error = None
                 /\ done[r] >= i => Steps(r)[i].status = "completed"

\* C17: the error text of a step is present if and only if the step is failed.
C17_ErrorIffFailed ==
    \A r \in Runs : \A i \in 1..Len(Steps(r)) :
        (Steps(r)[i].error # None) <=> (Steps(r)[i].status = "failed")

\* What does hold: no step ever has an error text, failed or not.
C17_StepErrorNeverSet ==
    \A r \in Runs : \A i \in 1..Len(Steps(r)) : Steps(r)[i].error = None

\* C18: the result payload of a step is present if and only if the step is
\* completed.
C18_ResultIffCompleted ==
    \A r \in Runs : \A i \in 1..Len(Steps(r)) :
        (Steps(r)[i].result # NoneData) <=> (Steps(r)[i].status = "completed")

\* What does hold: a completed step has a result payload, and a step with a
\* payload is completed or failed.
C18_CompletedHasResult ==
    \A r \in Runs : \A i \in 1..Len(Steps(r)) :
        /\ Steps(r)[i].status = "completed" => Steps(r)[i].result # NoneData
        /\ Steps(r)[i].result # NoneData
              => Steps(r)[i].status \in {"completed", "failed"}

\* The ActionResults of the run: the one _execute_step has just returned and
\* those kept in context["results"].
ActionResults(r) ==
    (IF pc[r] = "returned" /\ ~result[r].raised THEN {result[r].value} ELSE {})
    \cup { context[r][a] : a \in DOMAIN context[r] }

\* C19: an ActionResult with success=false has a data payload or an error
\* text, and not both.
C19_FailedResultDataOrError ==
    \A r \in Runs : \A res \in ActionResults(r) :
        ~res.success => ((res.data # NoneData) <=> (res.error = None))

C19_Witness ==
    \E r \in Runs :
        /\ pc[r] = "done"
        /\ DOMAIN context[r] = {"create_ticket", "notify_team"}
        /\ ~context[r]["create_ticket"].success
        /\ context[r]["create_ticket"].data = NoneData
        /\ context[r]["create_ticket"].error = ErrorText
        /\ ~context[r]["notify_team"].success
        /\ context[r]["notify_team"].data = Failure
        /\ context[r]["notify_team"].error = None

NoDuplicates(s) == \A i, j \in 1..Len(s) : i # j => s[i] # s[j]

\* C20: the selector returns at most five members, no member twice, and not
\* more members than min(5, size of the roster), for every roster.
C20_SelectionBounded ==
    \A r \in Runs :
        pc[r] = "selected" =>
            /\ Len(selection[r]) <= 5
            /\ NoDuplicates(selection[r])
            /\ Len(selection[r]) <= Min(5, Len(team_members[r]))

\* What does hold: the two bounds on the size for every roster, and no member
\* twice when the roster lists no member twice; a member listed twice in the
\* result is on call and holds the first two places.
C20_ExceptListedTwice ==
    \A r \in Runs :
        pc[r] = "selected" =>
            /\ Len(selection[r]) <= Min(5, Len(team_members[r]))
            /\ NoDuplicates(team_members[r]) => NoDuplicates(selection[r])
            /\ \A i, j \in 1..Len(selection[r]) :
                  (i < j /\ selection[r][i] = selection[r][j])
                  => (i = 1 /\ j = 2 /\ selection[r][i].on_call)

\* The places of the roster that hold an on-call member.
OnCallPlaces(r) == { i \in 1..Len(team_members[r]) : team_members[r][i].on_call }

\* The k smallest of a set of places, as the set of those below k others at most.
FirstPlaces(places, k) ==
    { i \in places : Cardinality({ j \in places : j < i }) < k }

\* The place among places that has n - 1 of them before it.
NthPlace(places, n) ==
    CHOOSE i \in places : Cardinality({ j \in places : j < i }) = n - 1

\* Length of the on-call prefix of the result.
PrefixLen(r) == Min(Cardinality(OnCallPlaces(r)), 2)

\* C21: the first min(k, 2) entries of the result are the first min(k, 2)
\* on-call members of the roster, in roster order; what was chosen for skills
\* or as filler comes after them.
C21_OnCallFirst ==
    \A r \in Runs :
        pc[r] = "selected" =>
            /\ Len(selection[r]) >= PrefixLen(r)
            /\ \A n \in 1..PrefixLen(r) :
                  selection[r][n] = team_members[r][NthPlace(OnCallPlaces(r), n)]

C21_Witness ==
    \E r \in Runs :
        /\ pc[r] = "selected"
        /\ incident[r].category = "database"
        /\ Len(team_members[r]) = 5
        /\ OnCallPlaces(r) = {2, 4, 5}
        /\ team_members[r][1].skills \cap category_skills["database"] # {}
        /\ selection[r][1] = team_members[r][2]
        /\ selection[r][2] = team_members[r][4]
        /\ selection[r][3] = team_members[r][1]
        /\ NoDuplicates(team_members[r])

HasSkill(r, m) ==
    m.skills \cap GetOr(category_skills, incident[r].category, {}) # {}

\* The first place of the roster that holds member m.
FirstPlace(r, m) ==
    CHOOSE i \in 1..Len(team_members[r]) :
        /\ team_members[r][i] = m
        /\ \A j \in 1..(i - 1) : team_members[r][j] # m

\* C22: after the on-call prefix come the roster members with a skill of the
\* incident's category, in roster order and none of them selected before,
\* then the members without such a skill; a member with such a skill is left
\* out only when five members are selected.
C22_SkilledAfterOnCall ==
    \A r \in Runs :
        pc[r] = "selected" =>
            LET sel == selection[r]
                rest == (PrefixLen(r) + 1)..Len(sel)
            IN  /\ \A i, j \in rest :
                      (i < j /\ HasSkill(r, sel[j])) =>
                          /\ HasSkill(r, sel[i])
                          /\ FirstPlace(r, sel[i]) < FirstPlace(r, sel[j])
                /\ \A j \in rest : \A i \in 1..(j - 1) : sel[i] # sel[j]
                /\ \A k \in 1..Len(team_members[r]) :
                      (HasSkill(r, team_members[r][k])
                         /\ team_members[r][k] \notin Range(sel))
                      => Len(sel) = 5

C22_Witness ==
    \E r \in Runs :
        /\ pc[r] = "selected"
        /\ incident[r].category = "database"
        /\ Len(team_members[r]) = 4
        /\ NoDuplicates(team_members[r])
        /\ ~HasSkill(r, team_members[r][1]) /\ ~team_members[r][1].on_call
        /\ HasSkill(r, team_members[r][2]) /\ ~team_members[r][2].on_call
        /\ team_members[r][3].on_call /\ ~HasSkill(r, team_members[r][3])
        /\ HasSkill(r, team_members[r][4]) /\ team_members[r][4].on_call
        /\ selection[r] = << team_members[r][3], team_members[r][4],
                             team_members[r][2], team_members[r][1] >>

\* The index is a place of the plan, and while a step is being dispatched
\* (its _execute_step call has not been recorded) it is that step's place.
IndexInPlan ==
    \A r \in Runs :
        Len(Steps(r)) > 0 =>
            /\ 0 <= active_workflows[r].current_step_index
            /\ active_workflows[r].current_step_index < Len(Steps(r))
            /\ pc[r] \in {"awaiting", "returned"} =>
                  /\ active_workflows[r].current_step_index = done[r]
                  /\ Steps(r)[active_workflows[r].current_step_index + 1].status
                        = "running"

IndexMovesForward ==
    \A r \in Runs :
        active_workflows'[r].current_step_index
            >= active_workflows[r].current_step_index

\* C29: the current step index of a workflow never decreases, and in a
\* non-empty plan it is a valid index, counted from zero, and the index of
\* the step that is being dispatched.
C29_StepIndex == []IndexInPlan /\ [][IndexMovesForward]_vars

C29_Witness ==
    \E r \in Runs :
        /\ Len(Steps(r)) = 5
        /\ pc[r] = "awaiting"
        /\ active_workflows[r].current_step_index = 4
        /\ Steps(r)[5].status = "running"

\* A step that is not a step of run r (the position of r is the same before
\* and after) leaves what belongs to r as it was.
OthersLeaveAlone(r) ==
    (pc'[r] = pc[r] /\ done'[r] = done[r]) =>
        /\ active_workflows'[r] = active_workflows[r]
        /\ incident'[r] = incident[r]
        /\ context'[r] = context[r]

\* C27: when dynamic-workflow runs interleave at their awaits, a run writes
\* its own registry entry only: it never changes the status, the current step
\* index, a step status or a step result of another run's workflow, nor
\* another run's incident.
C27_RunsIsolated == [][\A r \in Runs : OthersLeaveAlone(r)]_vars

C27_Witness ==
    /\ pc["run1"] = "awaiting" /\ done["run1"] = 2
    /\ pc["run2"] = "returned" /\ done["run2"] = 1
    /\ incident["run1"].servicenow_ticket_id # None
    /\ incident["run2"].servicenow_ticket_id = None
    /\ active_workflows["run1"].current_step_index = 2
    /\ active_workflows["run2"].status = "running"

\* The "stage" events of a run: the calls of the stage methods, in order.
StagesEntered(r) ==
    LET IsStage(e) == e.ev = "stage"
    IN  SelectSeq(log[r], IsStage)

\* The stage records stored so far are those of stages 1..n, in that order.
HoldsRecordsOf(r, n) ==
    /\ Len(workflow_result[r].steps) = n
    /\ \A k \in 1..n :
          /\ workflow_result[r].steps[k].key = StageKeys[k]
          /\ "status" \in DOMAIN workflow_result[r].steps[k].value

\* C23: while no fault has reached the top-level driver, the stages of a
\* playbook run are entered once each in the order 1..7, stage k+1 is entered
\* with the records of stages 1..k stored, and the result that is returned
\* holds the seven records.
C23_SevenStagesInOrder ==
    \A r \in Runs :
        (pc[r] \in {"entering", "in_stage", "finished"} /\ workflow_result[r].success)
        => /\ HoldsRecordsOf(r, done[r])
           /\ Len(StagesEntered(r)) = IF pc[r] = "in_stage" THEN done[r] + 1 ELSE done[r]
           /\ \A k \in 1..Len(StagesEntered(r)) :
                 /\ StagesEntered(r)[k].step = k
                 /\ StagesEntered(r)[k].what = StageKeys[k]
           /\ pc[r] = "finished" =>
                 /\ done[r] = 7
                 /\ workflow_result[r].completed_at # None

C23_Witness ==
    \E r \in Runs :
        /\ pc[r] = "finished"
        /\ workflow_result[r].success
        /\ HoldsRecordsOf(r, 7)
        /\ \A k \in 1..7 : workflow_result[r].steps[k].value.status = "completed"

\* A call of the stage that run r is in has raised a fault.
FaultInStage(r) ==
    /\ pc[r] = "in_stage"
    /\ \E n \in 1..Len(answers[r]) : answers[r][n].raised

\* The stage makes no further call after the fault.
FaultEndsStage == \A r \in Runs : FaultInStage(r) => ~Running(r).pending

\* The next step of a run with a fault in its stage stores the stage's
\* record, failed and with the fault's text, and goes on to the next stage.
FaultIsCaught ==
    \A r \in Runs :
        (FaultInStage(r) /\ pc'[r] # pc[r] /\ workflow_result[r].success
            /\ workflow_result'[r].success)
        => /\ done'[r] = done[r] + 1
           /\ pc'[r] = "entering"
           /\ workflow_result'[r].errors = << >>
           /\ Len(workflow_result'[r].steps) = done'[r]
           /\ workflow_result'[r].steps[done'[r]].key = StageKeys[done'[r]]
           /\ workflow_result'[r].steps[done'[r]].value.status = "failed"
           /\ workflow_result'[r].steps[done'[r]].value.error = FaultText

\* The stages after a failed one are entered like the others.
StageFollowsFailedStage ==
    \A r \in Runs :
        (pc[r] = "in_stage" /\ done[r] >= 1) =>
            /\ Len(workflow_result[r].steps) = done[r]
            /\ StagesEntered(r)[Len(StagesEntered(r))].step = done[r] + 1

\* C24: a fault that a collaborator raises inside a stage ends that stage with
\* a record of status failed that carries the fault's text, and the stages
\* after it are executed and store their records.
C24_StageFaultCaught ==
    [](FaultEndsStage /\ StageFollowsFailedStage) /\ [][FaultIsCaught]_vars

C24_Witness ==
    \E r \in Runs :
        /\ pc[r] = "finished"
        /\ workflow_result[r].success
        /\ Len(workflow_result[r].steps) = 7
        /\ workflow_result[r].steps[3].value.status = "failed"
        /\ workflow_result[r].steps[3].value.error = FaultText
        /\ \A k \in 4..7 : workflow_result[r].steps[k].value.status = "completed"

\* A fault has left a stage of run r.
Escaped(r) == \E n \in 1..Len(log[r]) : log[r][n].ev = "escape"

FailedRecords(r) ==
    {k \in 1..Len(workflow_result[r].steps) :
        workflow_result[r].steps[k].value.status = "failed"}

\* C25: the success flag of a playbook run is false exactly when its error
\* list is not empty, and as long as no fault has left a stage the flag is
\* true and the list is empty, however many stage records are failed.
C25_SuccessIffNoErrors ==
    \A r \in Runs :
        /\ ~workflow_result[r].success <=> workflow_result[r].errors # << >>
        /\ ~Escaped(r) =>
              /\ workflow_result[r].success
              /\ workflow_result[r].errors = << >>

C25_Witness ==
    \E r \in Runs :
        /\ pc[r] = "finished"
        /\ ~Escaped(r)
        /\ Cardinality(FailedRecords(r)) >= 3
        /\ workflow_result[r].success
        /\ workflow_result[r].errors = << >>

\* C26: once a fault has left stage k, the run has returned its result to the
\* caller without raising: the fault's text is in the error list, the success
\* flag is false, there is no completion timestamp, and nothing was executed
\* after the fault, so that no stage after k was entered and the records are
\* those of the stages before k.
C26_EscapedFaultEndsRun ==
    \A r \in Runs :
        Escaped(r) =>
            LET last == log[r][Len(log[r])]
            IN  /\ last.ev = "escape"
                /\ last.step = done[r] + 1
                /\ \A n \in 1..Len(log[r]) : log[r][n].step <= last.step
                /\ HoldsRecordsOf(r, last.step - 1)
                /\ pc[r] = "finished"
                /\ caller_error[r] = None
                /\ workflow_result[r].success = FALSE
                /\ workflow_result[r].errors = << FaultText >>
                /\ workflow_result[r].completed_at = None

C26_Witness ==
    \E r \in Runs :
        /\ Escaped(r)
        /\ pc[r] = "finished"
        /\ done[r] = 2
        /\ Len(StagesEntered(r)) = 3
        /\ workflow_result[r].errors = << FaultText >>

\* The place of a status in the order of IncidentStatus.
Rank(status) == CHOOSE n \in 1..Len(IncidentStatus) : IncidentStatus[n] = status

StatusMovesForward ==
    \A r \in Runs :
        pc[r] # "idle" => Rank(incident'[r].status) >= Rank(incident[r].status)

\* C30: during a run the status of the incident never moves backward in the
\* order detected, triaging, in_progress, mitigated, resolved, closed,
\* whatever status the incident had when the run was started.
C30_StatusNeverBackward == [][StatusMovesForward]_vars

\* Stage 7 of the playbook is the one place that writes the status.
C30_OnlyStageSevenWrites ==
    [][\A r \in Runs :
          (pc[r] # "idle" /\ incident'[r].status # incident[r].status) =>
              /\ done[r] = 6
              /\ incident'[r].status = "in_progress"]_vars

EntryKept ==
    \A id \in IncidentIds :
        active_incidents[id] # NoEntry => active_incidents'[id] = active_incidents[id]

\* C28: an entry of the playbook registry that one run has created is never
\* replaced or changed by another run, also when the two runs are started for
\* the same incident, one after the other or interleaved.
C28_EntryNeverReplaced == [][EntryKept]_vars

\* An entry changes only when a run is started for the incident that the
\* entry is stored under, and the result and the incident of a run are
\* written by that run alone.
C28_ReplacedBySameIncidentOnly ==
    [][/\ \A id \in IncidentIds :
             active_incidents'[id] # active_incidents[id] =>
                 \E r \in Runs :
                     /\ pc[r] = "idle" /\ pc'[r] = "entering"
                     /\ incident'[r].id = id
                     /\ active_incidents'[id] = Entry(r)
       /\ \A r \in Runs :
             (pc'[r] = pc[r] /\ answers'[r] = answers[r]) =>
                 /\ workflow_result'[r] = workflow_result[r]
                 /\ incident'[r] = incident[r]]_vars

\* The text quick_classify looks at: title, a space, description, in lower
\* case, as a tuple of characters.
ReportText ==
    LET joined == report.title \o << " " >> \o report.description
    IN  << >> \o [n \in 1..Len(joined) |-> LowerChar(joined[n])]

\* The keyword occurs in the text: its characters are consecutive ones of it.
Occurs(kw, text) ==
    \E at \in 1..Len(text) :
        /\ at + Len(kw) - 1 <= Len(text)
        /\ \A j \in 1..Len(kw) : text[at + j - 1] = kw[j]

\* Whether a keyword of the n-th severity occurs, for each n.
SeverityOccurs(text) ==
    << >> \o [n \in 1..Len(SEVERITY_KEYWORDS) |->
                 \E k \in 1..Len(SEVERITY_KEYWORDS[n].keywords) :
                     Occurs(SEVERITY_KEYWORDS[n].keywords[k], text)]

\* How many keywords of the n-th category occur, for each n.
CategoryCount(text) ==
    << >> \o [n \in 1..Len(CATEGORY_KEYWORDS) |->
                 Cardinality({k \in 1..Len(CATEGORY_KEYWORDS[n].keywords) :
                                 Occurs(CATEGORY_KEYWORDS[n].keywords[k], text)})]

\* C31: quick_classify returns the first severity, in the order critical,
\* high, medium, low, one of whose keywords occurs in the text of title and
\* description, and medium when there is none; it returns the category
\* unknown when no category keyword occurs, and otherwise a category no other
\* category has more matching keywords than.
C31_QuickClassify ==
    classification # NoClassification =>
        LET occurs == SeverityOccurs(ReportText)
            count == CategoryCount(ReportText)
        IN  /\ [n \in 1..Len(SEVERITY_KEYWORDS) |-> SEVERITY_KEYWORDS[n].severity]
                  = <<"critical", "high", "medium", "low">>
            /\ IF \E n \in DOMAIN occurs : occurs[n]
               THEN \E n \in DOMAIN occurs :
                       /\ occurs[n]
                       /\ \A m \in 1..(n - 1) : ~occurs[m]
                       /\ classification.severity = SEVERITY_KEYWORDS[n].severity
               ELSE classification.severity = "medium"
            /\ IF \A n \in DOMAIN count : count[n] = 0
               THEN classification.category = "unknown"
               ELSE \E n \in DOMAIN count :
                       /\ classification.category = CATEGORY_KEYWORDS[n].category
                       /\ count[n] > 0
                       /\ \A m \in DOMAIN count : count[m] <= count[n]

\* "slow DNS" / "latency": slow is a medium keyword and holds the low keyword
\* "low", latency is a high keyword; two categories have two keywords each.
C31_Witness ==
    /\ classification = [severity |-> "high", category |-> "network"]
    /\ SeverityOccurs(ReportText) = <<FALSE, TRUE, TRUE, TRUE>>
    /\ CategoryCount(ReportText)[3] = 2
    /\ CategoryCount(ReportText)[6] = 2

\* The collaborator call of step i of run r was made and returned success.
CallSucceeded(r, i, op) ==
    /\ \E k \in 1..Len(log[r]) :
          log[r][k].ev = "call" /\ log[r][k].step = i /\ log[r][k].what = op
    /\ \A k \in 1..Len(log[r]) :
          log[r][k].step = i => log[r][k].ev \notin {"fault", "failure"}
    /\ done[r] >= i

\* C32: in a fallback plan every notify_team step has a create_channel step
\* before it, and when the channel was created the notify_team step, once
\* dispatched, has called the chat collaborator with the channel id that is on
\* the incident.
C32_ChannelBeforeNotify ==
    \A r \in Runs :
        Planned(r) =>
            \A j \in 1..Len(Steps(r)) :
                Steps(r)[j].action = "notify_team" =>
                    /\ \E i \in 1..(j - 1) : Steps(r)[i].action = "create_channel"
                    /\ \A i \in 1..(j - 1) :
                          (/\ Steps(r)[i].action = "create_channel"
                           /\ CallSucceeded(r, i, "slack.create_incident_channel")
                           /\ HasEvent(r, "dispatch", j))
                          => /\ Truthy(incident[r].slack_channel_id)
                             /\ \E k \in 1..Len(log[r]) :
                                   /\ log[r][k].ev = "call"
                                   /\ log[r][k].step = j
                                   /\ log[r][k].what = "slack.notify_team"
                                   /\ log[r][k].arg.channel = incident[r].slack_channel_id

C32_Witness ==
    \E r \in Runs :
        /\ Planned(r)
        /\ Len(Steps(r)) = 5
        /\ CallSucceeded(r, 2, "slack.create_incident_channel")
        /\ pc[r] = "awaiting"
        /\ awaiting[r] = Call("slack.notify_team", [channel |-> "C024BE91L"])
        /\ Get(Steps(r)[3].parameters, "channel") = None

\* The Context of run r holds no usable data under key in the result of action:
\* there is no result, the result has no data, or the data has no such key.
InputMissing(r, action, key) ==
    \/ action \notin DOMAIN context[r]
    \/ context[r][action].data = NoneData
    \/ key \notin DOMAIN context[r][action].data

\* The step of run r that is dispatched and not recorded yet.
InFlight(r) == IF pc[r] \in {"awaiting", "returned"} THEN done[r] + 1 ELSE 0

\* C33: a generate_hypothesis step that is dispatched while the Context holds
\* no logs and/or no commits calls the decision service with None in their
\* place, returns a successful result and is recorded as completed.
C33_HypothesisWithoutInputs ==
    \A r \in Runs :
        /\ (InFlight(r) > 0 /\ Steps(r)[InFlight(r)].action = "generate_hypothesis")
           => /\ \E k \in 1..Len(log[r]) :
                    /\ log[r][k] = Event("call", InFlight(r),
                                         "ai.generate_root_cause_hypothesis",
                                         log[r][k].arg)
                    /\ InputMissing(r, "gather_logs", "logs")
                          => log[r][k].arg.logs = None
                    /\ InputMissing(r, "analyze_commits", "commits")
                          => log[r][k].arg.recent_changes = None
              /\ pc[r] = "returned" =>
                    /\ ~result[r].raised
                    /\ result[r].value.success
                    /\ result[r].value.error = None
        /\ \A i \in 1..done[r] :
              (pc[r] \in {"loop", "done"} /\ Steps(r)[i].action = "generate_hypothesis")
              => /\ Steps(r)[i].status = "completed"
                 /\ Steps(r)[i].error = None

\* The hypothesis is asked for after analyze_commits failed and with no logs
\* gathered.
C33_Witness ==
    \E r \in Runs :
        /\ pc[r] = "returned"
        /\ done[r] = 1
        /\ Steps(r)[2].action = "generate_hypothesis"
        /\ "analyze_commits" \in DOMAIN context[r]
        /\ ~context[r]["analyze_commits"].success
        /\ "gather_logs" \notin DOMAIN context[r]
        /\ result[r].value.success
        /\ log[r][Len(log[r])].ev = "call"
        /\ log[r][Len(log[r])].arg = [logs |-> None, recent_changes |-> None]

\* The alerts stage 2 of run r has sent to the shared channel.
AlertsSent(r) ==
    {k \in 1..Len(log[r]) :
        /\ log[r][k].ev = "call"
        /\ log[r][k].step = 2
        /\ log[r][k].what = "slack.notify_team"
        /\ "message" \in DOMAIN log[r][k].arg
        /\ log[r][k].arg.channel = INCIDENT_CHANNEL}

\* C34: the alert that stage 2 of the playbook sends to the shared
\* incident-response channel holds the details of the incident, whether the
\* incident's own channel was created or not.
C34_AlertHasDetails ==
    \A r \in Runs :
        \A k \in AlertsSent(r) :
            /\ log[r][k].arg.message # << >>
            /\ incident[r].severity \in Range(log[r][k].arg.message)

\* The alert holds the details when the incident's channel was created, and
\* is empty when it was not.
C34_DetailsIffChannelCreated ==
    \A r \in Runs :
        \A k \in AlertsSent(r) :
            IF Truthy(incident[r].slack_channel_id)
            THEN /\ incident[r].severity \in Range(log[r][k].arg.message)
                 /\ incident[r].slack_channel_id \in Range(log[r][k].arg.message)
            ELSE log[r][k].arg.message = << >>


\* The step has no prerequisite to work on: the ticket, the channel or the
\* roster its handler needs is missing on the incident inc and in members.
Unmet(step, inc, members) ==
    \/ step.action = "update_ticket" /\ ~Truthy(inc.servicenow_ticket_id)
    \/ /\ step.action = "notify_team"
       /\ ~Truthy(inc.slack_channel_id)
       /\ ~Truthy(Get(step.parameters, "channel"))
    \/ step.action = "post_update" /\ ~Truthy(inc.slack_channel_id)
    \/ /\ step.action = "assemble_team"
       /\ (members = << >> \/ ~Truthy(inc.slack_channel_id))

\* The errors of the results that the handlers return for a missing prerequisite.
RefusalErrors ==
    {"servicenow_ticket_id not set", "No channel_id", "No slack_channel_id",
     "Empty team_members list", "Create channel first"}

\* C35: a step whose prerequisite is missing when it is dispatched (no ticket
\* id for update_ticket, no channel for notify_team and post_update, no roster
\* or no channel for assemble_team) returns a failed result without a call to
\* a collaborator, and is recorded as failed.
C35_NoCallWithoutPrerequisite ==
    \A r \in Runs :
        /\ (InFlight(r) > 0 /\ Unmet(Steps(r)[InFlight(r)], before[r], team_members[r]))
           => /\ pc[r] = "returned"
              /\ ~HasEvent(r, "call", InFlight(r))
              /\ ~result[r].raised
              /\ ~result[r].value.success
              /\ result[r].value.error \in RefusalErrors
        /\ (/\ pc[r] \in {"loop", "done"}
            /\ done[r] > 0
            /\ Unmet(Steps(r)[done[r]], before[r], team_members[r]))
           => /\ Steps(r)[done[r]].status = "failed"
              /\ HasEvent(r, "handler", done[r])
              /\ ~HasEvent(r, "call", done[r])

\* update_ticket was refused and recorded as failed, and the handler of
\* assemble_team has refused next, with a roster and without a channel.
C35_Witness ==
    \E r \in Runs :
        /\ done[r] = 1
        /\ Steps(r)[1].action = "update_ticket"
        /\ Steps(r)[1].status = "failed"
        /\ ~HasEvent(r, "call", 1)
        /\ pc[r] = "returned"
        /\ Steps(r)[2].action = "assemble_team"
        /\ team_members[r] # << >>
        /\ result[r].value.error = "Create channel first"


\* The field of the incident that a create step fills in.
FieldOf ==
    [ create_ticket     |-> "servicenow_ticket_id",
      create_channel    |-> "slack_channel_id",
      create_postmortem |-> "confluence_page_id" ]

\* The step that run r has recorded last was skipped by its feature flag.
LastStepSkipped(r) ==
    /\ pc[r] \in {"loop", "done"}
    /\ done[r] > 0
    /\ Steps(r)[done[r]].action \in DOMAIN FieldOf
    /\ Steps(r)[done[r]].result = [skipped |-> TRUE]

\* C36: a create_ticket, create_channel or create_postmortem step that is
\* skipped because its feature is disabled has called no collaborator and has
\* left its field of the incident as it was when the step was dispatched, a
\* field that held a value included.
C36_SkippedStepKeepsField ==
    \A r \in Runs :
        LastStepSkipped(r) =>
            /\ ~HasEvent(r, "call", done[r])
            /\ incident[r][FieldOf[Steps(r)[done[r]].action]]
                  = before[r][FieldOf[Steps(r)[done[r]].action]]

\* A skipped create step calls no collaborator, and afterwards its field of
\* the incident is None whatever it held before.
C36_SkippedStepClearsField ==
    \A r \in Runs :
        LastStepSkipped(r) =>
            /\ ~HasEvent(r, "call", done[r])
            /\ incident[r][FieldOf[Steps(r)[done[r]].action]] = None


\* The fields of an incident that the steps of a dynamic workflow write.
WrittenFields ==
    {"servicenow_ticket_id", "slack_channel_id", "confluence_page_id",
     "root_cause_hypothesis", "assigned_responders"}

\* The step that run r has recorded last ended failed.
LastStepFailed(r) ==
    /\ pc[r] \in {"loop", "done"}
    /\ done[r] > 0
    /\ Steps(r)[done[r]].status = "failed"

\* C37: when a dispatched step ends failed, the ticket id, channel id,
\* document id, hypothesis and assigned responders of the incident are what
\* they were when the step was dispatched.
C37_FailedStepKeepsFields ==
    \A r \in Runs :
        /\ LastStepFailed(r) =>
              \A f \in WrittenFields : incident[r][f] = before[r][f]
        /\ (pc[r] = "returned" /\ (result[r].raised \/ ~result[r].value.success))
              => \A f \in WrittenFields : incident[r][f] = before[r][f]

\* The channel was created, then the collaborator failed to assemble the
\* team and the step is recorded as failed.
C37_Witness ==
    \E r \in Runs :
        /\ LastStepFailed(r)
        /\ done[r] = 2
        /\ Steps(r)[2].action = "assemble_team"
        /\ HasEvent(r, "call", 2)
        /\ Truthy(incident[r].slack_channel_id)
        /\ incident[r].assigned_responders = << >>


\* The field of the incident that a stage of the playbook writes.
StageField ==
    (1 :> "servicenow_ticket_id") @@ (4 :> "root_cause_hypothesis")
        @@ (5 :> "confluence_page_id")

\* Run r has stored the record of stage k last, and its status is failed.
LastStageFailed(r, k) ==
    /\ pc[r] = "entering"
    /\ done[r] = k
    /\ Len(workflow_result[r].steps) = k
    /\ workflow_result[r].steps[k].value.status = "failed"

\* C38: a stage of the playbook whose record is failed has not written its
\* field of the incident: the ticket id after a failed stage 1, the hypothesis
\* after a failed stage 4 and the document id after a failed stage 5 are what
\* they were when the stage was entered.
C38_FailedStageWritesNothing ==
    \A r \in Runs :
        \A k \in DOMAIN StageField :
            LastStageFailed(r, k) => incident[r][StageField[k]] = before[r][StageField[k]]

\* A failed stage 1 has left the ticket id alone; a failed stage 4 or 5 has
\* written its field exactly when the fault came from the update posted to the
\* incident's channel, after the field was written.
C38_WrittenIffUpdateFailed ==
    \A r \in Runs :
        /\ LastStageFailed(r, 1) =>
              incident[r].servicenow_ticket_id = before[r].servicenow_ticket_id
        /\ \A k \in {4, 5} :
              LastStageFailed(r, k) =>
                  (incident[r][StageField[k]] # before[r][StageField[k]]
                   <=> \E n \in 1..Len(log[r]) :
                          /\ log[r][n].ev = "call"
                          /\ log[r][n].step = k
                          /\ log[r][n].what = "slack.post_incident_update")


\* The number of events of kind ev that run r has logged for step i.
Times(r, ev, i) ==
    Cardinality({k \in 1..Len(log[r]) : log[r][k].ev = ev /\ log[r][k].step = i})

\* The steps of run r that the loop has reached.
Reached(r) ==
    IF pc[r] \in {"awaiting", "returned"} THEN done[r] + 1
    ELSE IF pc[r] \in {"loop", "done"} THEN done[r]
    ELSE 0

C40_SelectionSize ==
    \A r \in Runs :
        (pc[r] = "selected" /\ NoDuplicates(team_members[r])) =>
            /\ Len(selection[r]) = Min(5, Len(team_members[r]))
            /\ Range(selection[r]) \subseteq Range(team_members[r])
            /\ Len(team_members[r]) <= 5 =>
                  Range(selection[r]) = Range(team_members[r])

\* Five are selected of a roster of six different members.
C40_Witness ==
    \E r \in Runs :
        /\ pc[r] = "selected"
        /\ NoDuplicates(team_members[r])
        /\ Len(team_members[r]) = 6
        /\ Len(selection[r]) = 5
        /\ NoDuplicates(selection[r])

====
